---- MODULE Spec2Model ----
(***************************************************************************)
(* lsget: a sandboxed, read-only, shell-like file explorer served over     *)
(* HTTP.  The model follows src/unnamed/part_002 (the server's main.go).   *)
(* Strings are TLA+ strings, handled as sequences of one-character         *)
(* strings with Len, Head, Tail, SubSeq and \o.                            *)
(***************************************************************************)
EXTENDS Integers, Sequences, FiniteSets, TLC

VARIABLES
    fs,        \* the served tree: rule-file contents and whether the symlink exists
    sessions,  \* s.sessions: session id -> the two words of the cwd string
    resp,      \* the response being returned to the client, or NoResp
    thr,       \* per goroutine: the request it is serving and its position
    pin,       \* input of the pure path functions
    pout       \* their result

vars == <<fs, sessions, resp, thr, pin, pout>>

-----------------------------------------------------------------------------
(* Bounds *)

MaxLen == 6          \* longest virtual path string fed to the path functions

-----------------------------------------------------------------------------
(* Go library functions used by the server: strings, path, path/filepath   *)

HasPrefix(s, p) == Len(s) >= Len(p) /\ SubSeq(s, 1, Len(p)) = p

TrimPrefix(s, p) == IF HasPrefix(s, p) THEN SubSeq(s, Len(p) + 1, Len(s)) ELSE s

\* the i-th byte of s
Ch(s, i) == SubSeq(s, i, i)

SeqToSet(q) == {q[i] : i \in 1..Len(q)}

\* strings.Contains
Contains(s, sub) == \E i \in 0..(Len(s) - Len(sub)) : SubSeq(s, i + 1, i + Len(sub)) = sub

\* strings.ContainsAny
ContainsAny(s, chars) == \E i \in 1..Len(s) : Contains(chars, Ch(s, i))

\* the positions of s that hold no white space
Inked(s) == {i \in 1..Len(s) : Ch(s, i) \notin {" ", "\t", "\n"}}

\* strings.TrimSpace: s from its first to its last byte that is not white space
TrimSpace(s) ==
    IF Inked(s) = {} THEN ""
    ELSE SubSeq(s, CHOOSE i \in Inked(s) : \A j \in Inked(s) : i <= j,
                   CHOOSE i \in Inked(s) : \A j \in Inked(s) : j <= i)

\* the positions of the "/" of s, and the k-th of them (0 before the first,
\* Len(s) + 1 after the last)
Slashes(s) == {i \in 1..Len(s) : Ch(s, i) = "/"}

NthSlash(s, k) ==
    IF k = 0 THEN 0
    ELSE IF k > Cardinality(Slashes(s)) THEN Len(s) + 1
    ELSE CHOOSE p \in Slashes(s) : Cardinality({q \in Slashes(s) : q < p}) = k - 1

\* strings.Split(s, "/"): the segments of s, empty ones included
Split(s) ==
    [k \in 1..(Cardinality(Slashes(s)) + 1) |->
        SubSeq(s, NthSlash(s, k - 1) + 1, NthSlash(s, k) - 1)]

RECURSIVE JoinSegs(_)
JoinSegs(segs) ==
    IF segs = <<>> THEN ""
    ELSE IF Len(segs) = 1 THEN segs[1]
    ELSE segs[1] \o "/" \o JoinSegs(Tail(segs))

\* the element loop of path.Clean: drops empty and "." elements, lets ".."
\* remove the element before it, drops ".." at the root of a rooted path and
\* keeps it at the front of a relative one
RECURSIVE CleanSegs(_, _, _)
CleanSegs(segs, out, rooted) ==
    IF segs = <<>> THEN out
    ELSE LET h == Head(segs)
             t == Tail(segs)
         IN  IF h = "" \/ h = "." THEN CleanSegs(t, out, rooted)
             ELSE IF h = ".."
                  THEN IF out # <<>> /\ out[Len(out)] # ".."
                       THEN CleanSegs(t, SubSeq(out, 1, Len(out) - 1), rooted)
                       ELSE IF rooted THEN CleanSegs(t, out, rooted)
                            ELSE CleanSegs(t, Append(out, ".."), rooted)
                  ELSE CleanSegs(t, Append(out, h), rooted)

\* the cleaned elements of a non-empty path, joined
CleanBody(p) == JoinSegs(CleanSegs(Split(p), <<>>, Head(p) = "/"))

\* path.Clean (and filepath.Clean, the same function on a Unix build)
pathClean(p) ==
    IF p = "" THEN "."
    ELSE IF Head(p) = "/" THEN "/" \o CleanBody(p)
    ELSE IF CleanBody(p) = "" THEN "." ELSE CleanBody(p)

\* path.Join / filepath.Join of two elements: empty elements are ignored, the
\* rest are joined with "/" and cleaned
pathJoin(a, b) ==
    IF a = "" /\ b = "" THEN ""
    ELSE pathClean(IF a = "" THEN b ELSE IF b = "" THEN a ELSE a \o "/" \o b)

\* index of the last "/" of s, 0 when there is none
LastSlash(s) == NthSlash(s, IF Slashes(s) = {} THEN 0 ELSE Cardinality(Slashes(s)))

\* filepath.Dir / path.Dir
pathDir(p) == pathClean(SubSeq(p, 1, LastSlash(p)))

\* s without the slashes it ends with
StripTrailingSlashes(s) ==
    SubSeq(s, 1, CHOOSE k \in 0..Len(s) :
                     /\ \A j \in (k + 1)..Len(s) : Ch(s, j) = "/"
                     /\ (k = 0 \/ Ch(s, k) # "/"))

\* filepath.Base
pathBase(p) ==
    IF p = "" THEN "."
    ELSE IF StripTrailingSlashes(p) = "" THEN "/"
    ELSE SubSeq(StripTrailingSlashes(p), LastSlash(StripTrailingSlashes(p)) + 1,
                Len(StripTrailingSlashes(p)))

\* the number of leading elements two sequences share
CommonPrefixLen(a, b) ==
    CHOOSE k \in 0..Len(a) :
        /\ k <= Len(b)
        /\ \A i \in 1..k : a[i] = b[i]
        /\ (k = Len(a) \/ k = Len(b) \/ a[k + 1] # b[k + 1])

\* the elements of filepath.Rel for the elements b of the base and t of the
\* target: ".." for every element of b below the common ancestor, then the
\* rest of t
RelSegs(b, t) ==
    [i \in 1..(Len(b) - CommonPrefixLen(b, t)) |-> ".."]
        \o SubSeq(t, CommonPrefixLen(b, t) + 1, Len(t))

\* filepath.Rel(base, targ) for two absolute paths ("." when they are equal)
filepathRel(base, targ) ==
    IF CleanSegs(Split(base), <<>>, TRUE) = CleanSegs(Split(targ), <<>>, TRUE) THEN "."
    ELSE JoinSegs(RelSegs(CleanSegs(Split(base), <<>>, TRUE),
                          CleanSegs(Split(targ), <<>>, TRUE)))

\* filepath.Match for patterns made of literal characters, '*' and '?'
\* (neither matches '/'); character classes and escapes are not used by the
\* patterns of this model
RECURSIVE Match(_, _)
Match(pattern, name) ==
    IF pattern = "" THEN name = ""
    ELSE LET c == Head(pattern)
         IN  IF c = "*"
             THEN \E k \in 0..Len(name) :
                      /\ ~Contains(SubSeq(name, 1, k), "/")
                      /\ Match(Tail(pattern), SubSeq(name, k + 1, Len(name)))
             ELSE IF c = "?"
             THEN name # "" /\ Head(name) # "/" /\ Match(Tail(pattern), Tail(name))
             ELSE name # "" /\ Head(name) = c /\ Match(Tail(pattern), Tail(name))

-----------------------------------------------------------------------------
(* The sandbox: virtual paths and their translation                         *)

RootAbs == "/r"      \* s.rootAbs, an absolute, clean path

\* the real path p is the root itself or lies beneath it
Inside(p) == p = RootAbs \/ HasPrefix(p, RootAbs \o "/")

\* a cleanVirtual that leaves a relative path relative
cleanVirtualRelative(p) == IF p = "" THEN "/" ELSE pathClean(p)

cleanVirtual(p) ==
    IF p = "" THEN "/"
    ELSE pathClean(IF ~HasPrefix(p, "/") THEN "/" \o p ELSE p)

\* a joinVirtual that appends an absolute argument to the base
joinVirtualAppending(base, arg) ==
    cleanVirtual(IF arg = "" THEN base ELSE pathJoin(IF base = "" THEN "/" ELSE base, arg))

joinVirtual(base, arg) ==
    cleanVirtual(IF arg = "" THEN base
                 ELSE IF HasPrefix(arg, "/") THEN arg
                 ELSE pathJoin(IF base = "" THEN "/" ELSE base, arg))

\* a naive translation: the argument is joined to the root as it is, with no
\* normalisation and no containment check
realFromVirtualUnchecked(v) == [err |-> FALSE, path |-> pathJoin(RootAbs, v)]

\* the containment check of realFromVirtual on the joined path abs
containedReal(abs) ==
    IF abs = RootAbs THEN [err |-> FALSE, path |-> abs]
    ELSE IF HasPrefix(filepathRel(RootAbs, abs), "..") \/ filepathRel(RootAbs, abs) = ".."
         THEN [err |-> TRUE, path |-> ""]
         ELSE [err |-> FALSE, path |-> abs]

\* realFromVirtual: [err, path]; err stands for "permission denied"
realFromVirtual(v) ==
    IF cleanVirtual(v) = "/" THEN [err |-> FALSE, path |-> RootAbs]
    ELSE containedReal(pathJoin(RootAbs, TrimPrefix(cleanVirtual(v), "/")))

-----------------------------------------------------------------------------
(* The served tree.  Its shape is fixed; the contents of the rule files and *)
(* the presence of one symlink are chosen by the initial state.             *)
(*                                                                          *)
(*   /r            the root            /r/..e      a directory whose name   *)
(*   /r/a.t                                        begins with two dots     *)
(*   /r/d                              /r/..e/x                             *)
(*   /r/d/b.t                          /r/.h       a hidden directory       *)
(*   /r/d/s                            /r/.h/y                              *)
(*   /r/d/s/c                          /r/l -> /o  a symlink (optional)     *)
(*   /o, /o/p      a directory and a file outside the root                  *)

IgnoreFileName == ".lsgetignore"

TreeDirs == {"/", "/r", "/r/d", "/r/d/s", "/r/..e", "/r/.h", "/o"}

TreeFiles == {"/r/a.t", "/r/d/b.t", "/r/d/s/c", "/r/..e/x", "/r/.h/y", "/o/p"}

RuleDirs == {"/r", "/r/d", "/r/..e"}

LinkPath == "/r/l"

LinkTarget == "/o"

\* a symlink whose target does not exist, when the tree has it
DanglingPath == "/r/d/g"

\* the byte 0x00, written as a character no name or text of the tree uses
NUL == "^"

\* the file that is larger than any size limit of the server
BigFile == "/r/d/s/c"

\* the lines of each file (of the big file, the first of them)
FileLines(p) ==
    CASE p = "/o/p"     -> <<"key">>
      [] p = "/r/.h/y"  -> <<"w" \o NUL>>
      [] p = "/r/..e/x" -> <<"w" \o NUL, "0123456789abcdef">>
      [] OTHER          -> <<"w " \o pathBase(p)>>

\* the rule files that exist: a directory has one when its content is not empty
RuleFiles == {pathJoin(d, IgnoreFileName) : d \in {x \in RuleDirs : fs.rules[x] # <<>>}}

AllFiles == TreeFiles \cup RuleFiles

\* the path with the symlink followed, as the kernel does for every component
Phys(p) ==
    IF fs.link /\ (p = LinkPath \/ HasPrefix(p, LinkPath \o "/"))
    THEN LinkTarget \o SubSeq(p, Len(LinkPath) + 1, Len(p))
    ELSE p

\* os.Stat: follows symlinks
Stat(p) ==
    IF Phys(p) \in TreeDirs THEN "dir" ELSE IF Phys(p) \in AllFiles THEN "file" ELSE "none"

\* os.Lstat, as a DirEntry reports its own kind: a symlink is not a directory
Lstat(p) ==
    IF fs.link /\ p = LinkPath THEN "symlink"
    ELSE IF fs.dangling /\ p = DanglingPath THEN "symlink"
    ELSE IF fs.link /\ HasPrefix(p, LinkPath \o "/") THEN Stat(p)
    ELSE IF p \in TreeDirs THEN "dir" ELSE IF p \in AllFiles THEN "file" ELSE "none"

\* byte order of the characters that occur in names
AsciiOrder == " #*-./?abcdeghiklnoprstwxyz"

\* the first position of byte c in s, 0 when there is none
IndexOf(s, c) ==
    IF ~Contains(s, c) THEN 0
    ELSE CHOOSE i \in 1..Len(s) : Ch(s, i) = c /\ \A j \in 1..(i - 1) : Ch(s, j) # c

Ord(c) == IndexOf(AsciiOrder, c)

\* the number of leading bytes two strings share
SharedLen(a, b) ==
    CHOOSE k \in 0..Len(a) :
        /\ k <= Len(b)
        /\ SubSeq(a, 1, k) = SubSeq(b, 1, k)
        /\ (k = Len(a) \/ k = Len(b) \/ Ch(a, k + 1) # Ch(b, k + 1))

\* a < b for Go strings
StrLess(a, b) ==
    IF SharedLen(a, b) = Len(b) THEN FALSE
    ELSE IF SharedLen(a, b) = Len(a) THEN TRUE
    ELSE Ord(Ch(a, SharedLen(a, b) + 1)) < Ord(Ch(b, SharedLen(a, b) + 1))

\* sort.Strings
SortStrings(S) ==
    [i \in 1..Cardinality(S) |->
        CHOOSE x \in S : Cardinality({y \in S : StrLess(y, x)}) = i - 1]

\* the names in the directory that p names (p's symlinks followed)
ChildNames(p) ==
    {pathBase(n) : n \in {m \in (TreeDirs \ {"/"}) \cup AllFiles
                                     \cup (IF fs.link THEN {LinkPath} ELSE {})
                                     \cup (IF fs.dangling THEN {DanglingPath} ELSE {}) :
                              pathDir(m) = Phys(p)}}

\* os.ReadDir: the entries of a directory, sorted by file name
ReadDir(p) == SortStrings(ChildNames(p))

\* os.Open and os.ReadDir fail on p: its mode denies reading (os.Stat still
\* answers)
Unreadable(p) == Phys(p) \in fs.locked

\* the error os.Open and os.ReadDir return for such a path
OpenError(p) == "open " \o p \o ": permission denied"

\* DirEntry.IsDir of the entry name in directory dir
EntryIsDir(dir, name) == Lstat(pathJoin(Phys(dir), name)) = "dir"

-----------------------------------------------------------------------------
(* .lsgetignore support                                                     *)

\* the lines of a rule file that are patterns: trimmed, not blank, not comments
RECURSIVE PatternLines(_)
PatternLines(lines) ==
    IF lines = <<>> THEN <<>>
    ELSE IF TrimSpace(Head(lines)) = "" \/ HasPrefix(TrimSpace(Head(lines)), "#")
         THEN PatternLines(Tail(lines))
         ELSE <<TrimSpace(Head(lines))>> \o PatternLines(Tail(lines))

\* parseIgnoreFile: the patterns of a rule file; a missing file gives none
parseIgnoreFile(ignoreFilePath) ==
    IF Phys(ignoreFilePath) \in RuleFiles
    THEN PatternLines(fs.rules[pathDir(Phys(ignoreFilePath))])
    ELSE <<>>

\* the three tests shouldIgnore makes of one pattern at one level
PatternHits(pattern, currentDir, realPath, name) ==
    \/ Match(pattern, name)
    \/ \E relPath \in {filepathRel(currentDir, realPath)} :
           \/ Match(pattern, relPath)
           \/ (Contains(relPath, "/") /\ Match(pattern, pathBase(relPath)))

\* the loop of shouldIgnore from currentDir upward: whether a rule matched,
\* and the rule files it tried to open on the way
RECURSIVE shouldIgnoreFrom(_, _, _)
shouldIgnoreFrom(currentDir, realPath, name) ==
    IF HasPrefix(filepathRel(RootAbs, currentDir), "..")
    THEN [ignored |-> FALSE, reads |-> {}]
    ELSE IF \E pattern \in SeqToSet(parseIgnoreFile(pathJoin(currentDir, IgnoreFileName))) :
                PatternHits(pattern, currentDir, realPath, name)
    THEN [ignored |-> TRUE, reads |-> {pathJoin(currentDir, IgnoreFileName)}]
    ELSE IF pathDir(currentDir) = currentDir
    THEN [ignored |-> FALSE, reads |-> {pathJoin(currentDir, IgnoreFileName)}]
    ELSE [shouldIgnoreFrom(pathDir(currentDir), realPath, name)
            EXCEPT !.reads = {pathJoin(currentDir, IgnoreFileName)} \cup @]

shouldIgnoreWalk(realPath, name) == shouldIgnoreFrom(pathDir(realPath), realPath, name)

shouldIgnore(realPath, name) == shouldIgnoreWalk(realPath, name).ignored

-----------------------------------------------------------------------------
(* Command lines                                                            *)

\* a scanning loop that takes a backslash for an escape outside quotes too
RECURSIVE parseArgsFromEscaping(_, _, _, _)
parseArgsFromEscaping(line, buf, q, args) ==
    IF line = ""
    THEN IF buf # "" \/ q # "" THEN Append(args, buf) ELSE args
    ELSE LET c    == Head(line)
             rest == Tail(line)
         IN  IF q = "'"
             THEN IF c = "'" THEN parseArgsFromEscaping(rest, buf, "", args)
                  ELSE parseArgsFromEscaping(rest, buf \o c, q, args)
             ELSE IF c = "\\" /\ rest # ""
             THEN parseArgsFromEscaping(Tail(rest), buf \o Head(rest), q, args)
             ELSE IF q = "\""
             THEN IF c = "\"" THEN parseArgsFromEscaping(rest, buf, "", args)
                  ELSE parseArgsFromEscaping(rest, buf \o c, q, args)
             ELSE IF c \in {" ", "\t", "\n"}
             THEN IF buf # "" THEN parseArgsFromEscaping(rest, "", "", Append(args, buf))
                  ELSE parseArgsFromEscaping(rest, buf, "", args)
             ELSE IF c = "'" \/ c = "\"" THEN parseArgsFromEscaping(rest, buf, c, args)
             ELSE parseArgsFromEscaping(rest, buf \o c, "", args)

\* the scanning loop of parseArgs; q is the open quote ("" when none)
RECURSIVE parseArgsFrom(_, _, _, _)
parseArgsFrom(line, buf, q, args) ==
    IF line = ""
    THEN IF buf # "" \/ q # "" THEN Append(args, buf) ELSE args
    ELSE LET c    == Head(line)
             rest == Tail(line)
         IN  IF q = "'"
             THEN IF c = "'" THEN parseArgsFrom(rest, buf, "", args)
                  ELSE parseArgsFrom(rest, buf \o c, q, args)
             ELSE IF q = "\""
             THEN IF c = "\"" THEN parseArgsFrom(rest, buf, "", args)
                  ELSE IF c = "\\" /\ rest # ""
                       THEN parseArgsFrom(Tail(rest), buf \o Head(rest), q, args)
                       ELSE parseArgsFrom(rest, buf \o c, q, args)
             ELSE IF c \in {" ", "\t", "\n"}
             THEN IF buf # "" THEN parseArgsFrom(rest, "", "", Append(args, buf))
                  ELSE parseArgsFrom(rest, buf, "", args)
             ELSE IF c = "'" \/ c = "\"" THEN parseArgsFrom(rest, buf, c, args)
             ELSE parseArgsFrom(rest, buf \o c, "", args)

parseArgs(line) == parseArgsFrom(line, "", "", <<>>)

-----------------------------------------------------------------------------
(* Responses.  Besides what the client receives (status, output, download   *)
(* URL, new cwd) a response records what the handler did to produce it:     *)
(*   entries  the entries it listed, each with the real path it stands for  *)
(*   content  the real paths of the files whose bytes (or digests, or       *)
(*            matching lines) it put in the response                        *)
(*   acc      the real paths it passed to Stat, ReadDir, Open, or opened as *)
(*            a rule file                                                   *)

Reply ==
    [kind |-> "exec", status |-> "ok", output |-> "", entries |-> <<>>,
     content |-> {}, acc |-> {}, download |-> "", setcwd |-> FALSE,
     newcwd |-> "", dirs |-> 0, files |-> 0]

Out(text, acc) == [Reply EXCEPT !.output = text, !.acc = acc]

Entry(name, real, isDir) == [name |-> name, real |-> real, dir |-> isDir]

\* the rule files opened while deciding the entries of names in directory dir
IgnoreReads(dir, names) ==
    UNION {shouldIgnoreWalk(pathJoin(dir, n), n).reads : n \in names}

\* readDocFile lists the directory and reads a README of it; the tree has none
readDocFileAcc(dir) == {dir}

-----------------------------------------------------------------------------
(* ls, cd, cat                                                              *)

\* the argument loop of ls: every argument that starts with '-' is a set of
\* flag letters, the last other argument is the target
RECURSIVE lsArgs(_, _)
lsArgs(argv, acc) ==
    IF argv = <<>> THEN acc
    ELSE LET arg == Head(argv)
         IN  IF HasPrefix(arg, "-")
             THEN lsArgs(Tail(argv),
                         [acc EXCEPT !.long = @ \/ Contains(arg, "l"),
                                     !.showHidden = @ \/ Contains(arg, "a"),
                                     !.human = @ \/ Contains(arg, "h")])
             ELSE lsArgs(Tail(argv), [acc EXCEPT !.target = arg])

\* a filter that takes every name with a dot in it for a hidden one
RECURSIVE lsNamesAnyDot(_, _, _)
lsNamesAnyDot(realCwd, names, showHidden) ==
    IF names = <<>> THEN <<>>
    ELSE IF ~showHidden /\ Contains(Head(names), ".")
    THEN lsNamesAnyDot(realCwd, Tail(names), showHidden)
    ELSE IF shouldIgnore(pathJoin(realCwd, Head(names)), Head(names))
    THEN lsNamesAnyDot(realCwd, Tail(names), showHidden)
    ELSE <<Head(names)>> \o lsNamesAnyDot(realCwd, Tail(names), showHidden)

\* the names ls keeps, in directory order
RECURSIVE lsNames(_, _, _)
lsNames(realCwd, names, showHidden) ==
    IF names = <<>> THEN <<>>
    ELSE IF ~showHidden /\ HasPrefix(Head(names), ".")
    THEN lsNames(realCwd, Tail(names), showHidden)
    ELSE IF shouldIgnore(pathJoin(realCwd, Head(names)), Head(names))
    THEN lsNames(realCwd, Tail(names), showHidden)
    ELSE <<Head(names)>> \o lsNames(realCwd, Tail(names), showHidden)

\* the entries ls prints for the names it kept, sorted: the long listing
\* leaves out a name that os.Stat fails on, the short one prints it
lsEntries(realCwd, names) ==
    [i \in 1..Len(names) |->
        Entry(names[i], pathJoin(realCwd, names[i]),
              Stat(pathJoin(realCwd, names[i])) = "dir")]

lsLongs(realCwd, entries) == SelectSeq(entries, LAMBDA e : Stat(e.real) # "none")

\* a response that lists entries: the listed paths were all looked at
Listing(entries, acc) ==
    [Reply EXCEPT !.entries = entries,
                  !.acc = acc \cup {e.real : e \in SeqToSet(entries)}]

\* ls once its arguments o are parsed and the target is translated to rv
lsTarget(o, rv) ==
    IF rv.err THEN Out("ls: permission denied", {})
    ELSE IF Stat(rv.path) = "none"
    THEN Out("ls: cannot access '" \o o.target \o "': No such file or directory", {rv.path})
    ELSE IF Stat(rv.path) # "dir"
    THEN Listing(<<Entry(pathBase(rv.path), rv.path, FALSE)>>, {})
    ELSE IF Unreadable(rv.path) THEN Out("ls: error", {rv.path})
    ELSE Listing(IF o.long
                 THEN lsLongs(rv.path,
                              lsEntries(rv.path,
                                        SortStrings(SeqToSet(lsNames(rv.path, ReadDir(rv.path),
                                                                     o.showHidden)))))
                 ELSE lsEntries(rv.path,
                                SortStrings(SeqToSet(lsNames(rv.path, ReadDir(rv.path),
                                                             o.showHidden)))),
                 {rv.path} \cup IgnoreReads(rv.path,
                                            {n \in ChildNames(rv.path) :
                                                 o.showHidden \/ ~HasPrefix(n, ".")}))

lsOptions(cwd, argv) ==
    lsArgs(argv, [long |-> FALSE, showHidden |-> FALSE, human |-> FALSE, target |-> cwd])

execLs(cwd, argv) ==
    lsTarget(lsOptions(cwd, argv),
             realFromVirtual(joinVirtual(cwd, lsOptions(cwd, argv).target)))

\* the operand of cd, "/" when there is none
cdTarget(argv) == IF Len(argv) = 1 /\ argv[1] # "" THEN argv[1] ELSE "/"

\* a cd that stores the joined path without looking at what it names
cdOutcomeUnvalidated(cwd, argv) ==
    IF realFromVirtual(joinVirtual(cwd, cdTarget(argv))).err
    THEN Out("cd: permission denied", {})
    ELSE [Reply EXCEPT !.setcwd = TRUE, !.newcwd = joinVirtual(cwd, cdTarget(argv)),
                       !.acc = {realFromVirtual(joinVirtual(cwd, cdTarget(argv))).path}]

\* cd once the new cwd newV is translated to rv
cdTo(newV, rv) ==
    IF rv.err THEN Out("cd: permission denied", {})
    ELSE IF Stat(rv.path) = "none" THEN Out("cd: no such file or directory", {rv.path})
    ELSE IF Stat(rv.path) # "dir" THEN Out("cd: not a directory", {rv.path})
    ELSE [Reply EXCEPT !.setcwd = TRUE, !.newcwd = newV,
                       !.acc = {rv.path} \cup readDocFileAcc(rv.path)]

\* what cd decides from the cwd it read: the new cwd, or the error text
cdOutcome(cwd, argv) ==
    cdTo(joinVirtual(cwd, cdTarget(argv)), realFromVirtual(joinVirtual(cwd, cdTarget(argv))))

CatMax == 16         \* s.catMax: the -catmax setting of this model's server, in bytes

GrepMax == 10485760  \* the size above which grep reports "file too large"

RECURSIVE SumLens(_)
SumLens(lines) == IF lines = <<>> THEN 0 ELSE Len(Head(lines)) + 1 + SumLens(Tail(lines))

\* info.Size(): every line of a file ends with a newline
FileSize(p) ==
    IF Phys(p) = BigFile THEN GrepMax + 1 ELSE SumLens(FileLines(Phys(p)))

\* looksText of the bytes read from a file: false when one of them is NUL (all
\* other bytes of the tree are printable ASCII)
looksText(lines) == \A i \in 1..Len(lines) : ~Contains(lines[i], NUL)

\* cat once its operand is translated to rv
catFile(rv) ==
    IF rv.err THEN Out("cat: permission denied", {})
    ELSE IF Stat(rv.path) = "none" THEN Out("cat: no such file or directory", {rv.path})
    ELSE IF Stat(rv.path) = "dir" THEN Out("cat: is a directory", {rv.path})
    ELSE IF FileSize(rv.path) > CatMax
    THEN Out("cat: file too large (" \o ToString(FileSize(rv.path))
                 \o " > limit " \o ToString(CatMax) \o ")", {rv.path})
    ELSE IF ~looksText(FileLines(Phys(rv.path)))
    THEN Out("cat: binary file (skipping)", {rv.path})
    ELSE [Reply EXCEPT !.content = {rv.path}, !.acc = {rv.path}]

execCat(cwd, argv) ==
    IF Len(argv) < 1 THEN Out("cat: missing operand", {})
    ELSE catFile(realFromVirtual(joinVirtual(cwd, argv[1])))

-----------------------------------------------------------------------------
(* find                                                                     *)

\* the argument loop of find
RECURSIVE findArgs(_, _, _)
findArgs(argv, cwd, acc) ==
    IF argv = <<>> THEN acc
    ELSE LET arg == Head(argv)
         IN  IF arg = "-name" /\ Len(argv) > 1
             THEN findArgs(Tail(Tail(argv)), cwd, [acc EXCEPT !.namePattern = argv[2]])
             ELSE IF arg = "-type" /\ Len(argv) > 1
             THEN findArgs(Tail(Tail(argv)), cwd, [acc EXCEPT !.typeFilter = argv[2]])
             ELSE IF ~HasPrefix(arg, "-")
             THEN findArgs(Tail(argv), cwd, [acc EXCEPT !.searchPath = joinVirtual(cwd, arg)])
             ELSE findArgs(Tail(argv), cwd, acc)

Found == [results |-> <<>>, acc |-> {}]

\* two lists of results, one after the other
Both(a, b) == [results |-> a.results \o b.results, acc |-> a.acc \cup b.acc]

\* the -type test of one entry
typeMatches(typeFilter, isDir) ==
    CASE typeFilter = "f" -> ~isDir
      [] typeFilter = "d" -> isDir
      [] OTHER -> TRUE

\* findFiles, the body of its loop for one entry, and the loop: the results
\* in the order they are appended, and the paths touched
RECURSIVE findFiles(_, _, _, _)
findEntry(realEntryPath, virtualEntryPath, name, isDir, pattern, typeFilter, walk) ==
    IF HasPrefix(name, ".") /\ ~HasPrefix(pattern, ".") THEN Found
    ELSE IF walk.ignored THEN [results |-> <<>>, acc |-> walk.reads]
    ELSE [(IF isDir THEN findFiles(realEntryPath, virtualEntryPath, pattern, typeFilter)
           ELSE Found)
            EXCEPT !.results = (IF Match(pattern, name) /\ typeMatches(typeFilter, isDir)
                                THEN <<Entry(virtualEntryPath, realEntryPath, isDir)>>
                                ELSE <<>>) \o @,
                   !.acc = walk.reads \cup @]

\* the loop of findFiles, ended by the first subdirectory that cannot be listed
RECURSIVE findEntriesAborting(_, _, _, _, _)
findEntriesAborting(realPath, virtualPath, pattern, typeFilter, names) ==
    IF names = <<>> THEN Found
    ELSE IF EntryIsDir(realPath, Head(names)) /\ Unreadable(pathJoin(realPath, Head(names)))
    THEN findEntry(pathJoin(realPath, Head(names)), pathJoin(virtualPath, Head(names)),
                   Head(names), TRUE, pattern, typeFilter,
                   shouldIgnoreWalk(pathJoin(realPath, Head(names)), Head(names)))
    ELSE Both(findEntry(pathJoin(realPath, Head(names)), pathJoin(virtualPath, Head(names)),
                        Head(names), EntryIsDir(realPath, Head(names)), pattern, typeFilter,
                        shouldIgnoreWalk(pathJoin(realPath, Head(names)), Head(names))),
              findEntriesAborting(realPath, virtualPath, pattern, typeFilter, Tail(names)))

RECURSIVE findEntries(_, _, _, _, _)
findEntries(realPath, virtualPath, pattern, typeFilter, names) ==
    IF names = <<>> THEN Found
    ELSE Both(findEntry(pathJoin(realPath, Head(names)), pathJoin(virtualPath, Head(names)),
                        Head(names), EntryIsDir(realPath, Head(names)), pattern, typeFilter,
                        shouldIgnoreWalk(pathJoin(realPath, Head(names)), Head(names))),
              findEntries(realPath, virtualPath, pattern, typeFilter, Tail(names)))

findFiles(realPath, virtualPath, pattern, typeFilter) ==
    IF Unreadable(realPath) THEN [results |-> <<>>, acc |-> {realPath}]
    ELSE
    [findEntries(realPath, virtualPath, pattern, typeFilter, ReadDir(realPath))
        EXCEPT !.acc = {realPath} \cup @]

\* the response of find for what findFiles returned
findReply(f) ==
    IF f.results = <<>> THEN Out("find: no matches found", f.acc)
    ELSE [Reply EXCEPT !.entries = f.results, !.acc = f.acc]

\* find once its arguments o are parsed and the search path is translated
findIn(o, rv) ==
    IF o.typeFilter \notin {"", "f", "d"}
    THEN Out("find: invalid type filter (use 'f' for files or 'd' for directories)", {})
    ELSE IF rv.err THEN Out("find: permission denied", {})
    ELSE IF Stat(rv.path) = "none" THEN Out("find: no such file or directory", {rv.path})
    ELSE IF Stat(rv.path) # "dir" THEN Out("find: not a directory", {rv.path})
    ELSE IF Unreadable(rv.path) THEN Out("find: " \o OpenError(rv.path), {rv.path})
    ELSE findReply(findFiles(rv.path, o.searchPath, o.namePattern, o.typeFilter))

findOptions(cwd, argv) ==
    findArgs(argv, cwd, [searchPath |-> cwd, namePattern |-> "*", typeFilter |-> ""])

execFind(cwd, argv) ==
    findIn(findOptions(cwd, argv), realFromVirtual(findOptions(cwd, argv).searchPath))

-----------------------------------------------------------------------------
(* tree                                                                     *)

Digits == "0123456789"

\* fmt.Sscanf(s, "%d", &n): the value of the leading digits, none when there
\* is no leading digit
RECURSIVE ScanDigits(_, _)
ScanDigits(s, n) ==
    IF s # "" /\ Contains(Digits, Head(s))
    THEN ScanDigits(Tail(s), 10 * n + (IndexOf(Digits, Head(s)) - 1))
    ELSE n

\* a signed decimal prefix, -1 (the caller's fallback) when there is none
ScanInt(s) ==
    LET signed == s # "" /\ Head(s) \in {"+", "-"}
        digits == IF signed THEN Tail(s) ELSE s
    IN  IF digits = "" \/ ~Contains(Digits, Head(digits)) THEN -1
        ELSE IF signed /\ Head(s) = "-" THEN 0 - ScanDigits(digits, 0)
        ELSE ScanDigits(digits, 0)

\* the argument loop of tree
RECURSIVE treeArgs(_, _, _)
treeArgs(argv, cwd, acc) ==
    IF argv = <<>> THEN acc
    ELSE LET arg == Head(argv)
             a1  == IF Contains(arg, "a") THEN [acc EXCEPT !.showHidden = TRUE] ELSE acc
             depthStr == SubSeq(arg, 3, Len(arg))
             a2  == IF HasPrefix(arg, "-L") /\ Len(arg) > 2
                    THEN [a1 EXCEPT !.maxDepth = ScanInt(depthStr)]
                    ELSE a1
         IN  IF HasPrefix(arg, "-") THEN treeArgs(Tail(argv), cwd, a2)
             ELSE treeArgs(Tail(argv), cwd, [acc EXCEPT !.target = joinVirtual(cwd, arg)])

\* the entries buildTree keeps of a directory
treeValid(dirPath, showHidden) ==
    {n \in ChildNames(dirPath) : showHidden \/ ~HasPrefix(n, ".")}

\* a sort by name alone
treeSortedByName(dirPath, names) == SortStrings(names)

\* its sort: directories first, then files, by name within each group
treeSorted(dirPath, names) ==
    SortStrings({n \in names : EntryIsDir(dirPath, n)})
        \o SortStrings({n \in names : ~EntryIsDir(dirPath, n)})

NoTree == [lines |-> <<>>, dirs |-> 0, files |-> 0, acc |-> {}]

\* the tree of one entry followed by the trees of the entries after it
TreeBoth(a, b) ==
    [lines |-> a.lines \o b.lines, dirs |-> a.dirs + b.dirs,
     files |-> a.files + b.files, acc |-> a.acc \cup b.acc]

\* buildTree, the body of its loop for one kept entry, and the loop: the
\* rendered lines in order, the two counts and the paths touched
RECURSIVE buildTree(_, _, _, _)
treeEntry(name, fullPath, isDir, showHidden, maxDepth, currentDepth) ==
    [(IF isDir THEN buildTree(fullPath, showHidden, maxDepth, currentDepth + 1) ELSE NoTree)
        EXCEPT !.lines = <<Entry(name, fullPath, isDir)>> \o @,
               !.dirs  = (IF isDir THEN 1 ELSE 0) + @,
               !.files = (IF isDir THEN 0 ELSE 1) + @]

RECURSIVE treeEntries(_, _, _, _, _)
treeEntries(dirPath, names, showHidden, maxDepth, currentDepth) ==
    IF names = <<>> THEN NoTree
    ELSE TreeBoth(treeEntry(Head(names), pathJoin(dirPath, Head(names)),
                            EntryIsDir(dirPath, Head(names)),
                            showHidden, maxDepth, currentDepth),
                  treeEntries(dirPath, Tail(names), showHidden, maxDepth, currentDepth))

buildTree(dirPath, showHidden, maxDepth, currentDepth) ==
    IF maxDepth >= 0 /\ currentDepth >= maxDepth
    THEN NoTree
    ELSE IF Unreadable(dirPath) THEN [NoTree EXCEPT !.acc = {dirPath}]
    ELSE [treeEntries(dirPath, treeSorted(dirPath, treeValid(dirPath, showHidden)),
                      showHidden, maxDepth, currentDepth)
              EXCEPT !.acc = {dirPath} \cup @]

\* the response of tree for what buildTree returned
treeReply(realPath, t) ==
    [Reply EXCEPT !.entries = t.lines, !.dirs = t.dirs, !.files = t.files,
                  !.acc = {realPath} \cup t.acc]

\* tree once its arguments o are parsed and the target is translated
treeOf(o, rv) ==
    IF rv.err THEN Out("tree: permission denied", {})
    ELSE IF Stat(rv.path) = "none" THEN Out("tree: no such file or directory", {rv.path})
    ELSE IF Stat(rv.path) # "dir" THEN Out("tree: not a directory", {rv.path})
    ELSE treeReply(rv.path, buildTree(rv.path, o.showHidden, o.maxDepth, 0))

treeOptions(cwd, argv) ==
    treeArgs(argv, cwd, [showHidden |-> FALSE, maxDepth |-> -1, target |-> cwd])

execTree(cwd, argv) ==
    treeOf(treeOptions(cwd, argv), realFromVirtual(treeOptions(cwd, argv).target))

-----------------------------------------------------------------------------
(* Archive collection                                                       *)

FileItem(virtualPath, realPath, relativePath) ==
    [name |-> virtualPath, real |-> realPath, dir |-> FALSE, rel |-> relativePath]

NoItems == [files |-> <<>>, acc |-> {}, err |-> ""]

\* the files of one walk followed by the files of the next
Walked(a, b) == [files |-> a.files \o b.files, acc |-> a.acc \cup b.acc]

\* the callback of collectFilesFromDirectory on an entry that is no directory
walkFile(path, realDir, baseDir, walk) ==
    IF walk.ignored \/ HasPrefix(pathBase(path), ".")
    THEN [files |-> <<>>, acc |-> {path} \cup walk.reads]
    ELSE [files |-> <<FileItem(path, path, pathJoin(baseDir, filepathRel(realDir, path)))>>,
          acc |-> {path} \cup walk.reads]

\* filepath.Walk below path, in lexical order, with the callback of
\* collectFilesFromDirectory: directories are entered and never filtered, every
\* other entry is collected unless it is ignored or its name starts with '.'
RECURSIVE walkCollect(_, _, _)
RECURSIVE walkNames(_, _, _, _)
walkNames(dir, names, realDir, baseDir) ==
    IF names = <<>> THEN [files |-> <<>>, acc |-> {}]
    ELSE Walked(walkCollect(pathJoin(dir, Head(names)), realDir, baseDir),
                walkNames(dir, Tail(names), realDir, baseDir))

walkCollect(path, realDir, baseDir) ==
    IF Lstat(path) = "none" THEN [files |-> <<>>, acc |-> {path}]
    ELSE IF Lstat(path) = "dir"
    THEN [walkNames(path, ReadDir(path), realDir, baseDir) EXCEPT !.acc = {path} \cup @]
    ELSE walkFile(path, realDir, baseDir, shouldIgnoreWalk(path, pathBase(path)))

Collected(r) == [files |-> r.files, acc |-> r.acc, err |-> ""]

collectFilesFromDirectory(virtualDir, realDir) ==
    Collected(walkCollect(realDir, realDir, pathBase(realDir)))

\* the text of the error os.ReadDir returns for a path that is no directory
ReadDirError(path) ==
    IF Stat(path) = "none" THEN "open " \o path \o ": no such file or directory"
    ELSE "readdirent " \o path \o ": not a directory"

\* the loop of collectFilesForDownload over one directory level
RECURSIVE globLevel(_, _, _, _)
globLevel(rDir, vDir, filePattern, names) ==
    IF names = <<>> THEN <<>>
    ELSE IF EntryIsDir(rDir, Head(names)) \/ ~Match(filePattern, Head(names))
    THEN globLevel(rDir, vDir, filePattern, Tail(names))
    ELSE IF shouldIgnore(pathJoin(rDir, Head(names)), Head(names))
    THEN globLevel(rDir, vDir, filePattern, Tail(names))
    ELSE <<FileItem(pathJoin(vDir, Head(names)), pathJoin(rDir, Head(names)), Head(names))>>
             \o globLevel(rDir, vDir, filePattern, Tail(names))

globLevelAcc(rDir, filePattern) ==
    {rDir} \cup IgnoreReads(rDir, {n \in ChildNames(rDir) :
                                       ~EntryIsDir(rDir, n) /\ Match(filePattern, n)})

\* the glob branch once the directory part vDir of the pattern is translated
globIn(vDir, rd, filePattern) ==
    IF rd.err THEN [NoItems EXCEPT !.err = "permission denied"]
    ELSE IF Stat(rd.path) # "dir"
    THEN [NoItems EXCEPT !.err = ReadDirError(rd.path), !.acc = {rd.path}]
    ELSE [files |-> globLevel(rd.path, vDir, filePattern, ReadDir(rd.path)),
          acc |-> globLevelAcc(rd.path, filePattern),
          err |-> ""]

\* the directory a glob pattern is matched in
globDir(cwd, pattern) ==
    IF Contains(pattern, "/") THEN joinVirtual(cwd, pathDir(pattern)) ELSE cwd

\* the literal branch once the path vp is translated to rv
literalItemLenient(vp, rv) ==
    IF rv.err \/ Stat(rv.path) = "none" THEN NoItems
    ELSE IF Stat(rv.path) = "dir"
    THEN [collectFilesFromDirectory(vp, rv.path) EXCEPT !.acc = {rv.path} \cup @]
    ELSE [files |-> <<FileItem(vp, rv.path, pathBase(rv.path))>>,
          acc |-> {rv.path}, err |-> ""]

literalItem(vp, rv) ==
    IF rv.err THEN [NoItems EXCEPT !.err = "permission denied"]
    ELSE IF Stat(rv.path) = "none"
    THEN [NoItems EXCEPT !.err = "stat " \o rv.path \o ": no such file or directory",
                         !.acc = {rv.path}]
    ELSE IF Stat(rv.path) = "dir"
    THEN [collectFilesFromDirectory(vp, rv.path) EXCEPT !.acc = {rv.path} \cup @]
    ELSE [files |-> <<FileItem(vp, rv.path, pathBase(rv.path))>>,
          acc |-> {rv.path}, err |-> ""]

collectFilesForDownload(cwd, pattern) ==
    IF pattern = "."
    THEN IF realFromVirtual(cwd).err THEN [NoItems EXCEPT !.err = "permission denied"]
         ELSE collectFilesFromDirectory(cwd, realFromVirtual(cwd).path)
    ELSE IF ContainsAny(pattern, "*?[")
    THEN IF realFromVirtual(cwd).err THEN [NoItems EXCEPT !.err = "permission denied"]
         ELSE globIn(globDir(cwd, pattern), realFromVirtual(globDir(cwd, pattern)),
                     IF Contains(pattern, "/") THEN pathBase(pattern) ELSE pattern)
    ELSE literalItem(joinVirtual(cwd, pattern), realFromVirtual(joinVirtual(cwd, pattern)))

\* strings.NewReplacer of urlQueryEscape
RECURSIVE urlQueryEscape(_)
urlQueryEscape(s) ==
    IF s = "" THEN ""
    ELSE LET c == Head(s)
             e == CASE c = " " -> "%20"
                    [] c = "#" -> "%23"
                    [] c = "?" -> "%3F"
                    [] c = "&" -> "%26"
                    [] c = "+" -> "%2B"
                    [] c = "%" -> "%25"
                    [] OTHER   -> c
         IN  e \o urlQueryEscape(Tail(s))

RECURSIVE EscapeSegs(_)
EscapeSegs(segs) ==
    IF segs = <<>> THEN <<>> ELSE <<urlQueryEscape(Head(segs))>> \o EscapeSegs(Tail(segs))

urlEscapeVirtual(v) ==
    "/" \o JoinSegs(EscapeSegs(Split(TrimPrefix(cleanVirtual(v), "/"))))

\* get on a glob pattern or ".": the files collectFilesForDownload found
getCollected(cwd, pattern, c) ==
    IF c.err # "" THEN Out("download: " \o c.err, c.acc)
    ELSE IF Len(c.files) = 0
    THEN Out("download: no matching files found", c.acc)
    ELSE IF Len(c.files) = 1
    THEN [Reply EXCEPT
             !.entries = c.files, !.acc = c.acc,
             !.download = "/api/download?path=" \o urlEscapeVirtual(c.files[1].name)]
    ELSE [Reply EXCEPT
             !.entries = c.files, !.acc = c.acc,
             !.output = "Downloading " \o ToString(Len(c.files)) \o " files as archive.zip",
             !.download = "/api/download?pattern=" \o urlQueryEscape(pattern)
                             \o "&cwd=" \o urlEscapeVirtual(cwd)]

\* get on a directory: the files collectFilesFromDirectory found below it
getDirectory(vp, realPath, c) ==
    IF Len(c.files) = 0
    THEN Out("download: directory is empty", {realPath} \cup c.acc)
    ELSE [Reply EXCEPT
             !.entries = c.files, !.acc = {realPath} \cup c.acc,
             !.output = "Downloading directory '" \o pathBase(realPath) \o "' with "
                           \o ToString(Len(c.files)) \o " files as "
                           \o pathBase(realPath) \o ".zip",
             !.download = "/api/download?dir=" \o urlEscapeVirtual(vp)]

\* get on a literal path vp, translated to rv
getLiteral(vp, rv) ==
    IF rv.err THEN Out("download: permission denied", {})
    ELSE IF Stat(rv.path) = "none" THEN Out("download: no such file", {rv.path})
    ELSE IF Stat(rv.path) = "dir"
    THEN getDirectory(vp, rv.path, collectFilesFromDirectory(vp, rv.path))
    ELSE [Reply EXCEPT !.acc = {rv.path},
                       !.download = "/api/download?path=" \o urlEscapeVirtual(vp)]

execGet(cwd, argv) ==
    IF Len(argv) < 1 THEN Out("download: missing operand", {})
    ELSE IF ContainsAny(argv[1], "*?[") \/ argv[1] = "."
    THEN getCollected(cwd, argv[1], collectFilesForDownload(cwd, argv[1]))
    ELSE getLiteral(joinVirtual(cwd, argv[1]), realFromVirtual(joinVirtual(cwd, argv[1])))

-----------------------------------------------------------------------------
(* grep, url, sum                                                           *)

\* strings.ToLower on the letters this model uses
RECURSIVE ToLower(_)
ToLower(s) ==
    IF s = "" THEN ""
    ELSE LET c == Head(s)
             l == CASE c = "K" -> "k" [] c = "W" -> "w" [] OTHER -> c
         IN  l \o ToLower(Tail(s))

\* whether grep takes a line for a match
lineMatches(line, pattern, ignoreCase) ==
    Contains(IF ignoreCase THEN ToLower(line) ELSE line,
             IF ignoreCase THEN ToLower(pattern) ELSE pattern)

\* the matching lines of one file, each with the prefixes grep gives it
RECURSIVE grepLines(_, _, _, _, _, _, _, _)
grepLines(lines, lineNum, realPath, virtualPath, pattern, ignoreCase, showLineNumbers, showFilename) ==
    IF lines = <<>> THEN <<>>
    ELSE (IF lineMatches(Head(lines), pattern, ignoreCase)
          THEN <<Entry((IF showFilename THEN virtualPath \o ":" ELSE "")
                         \o (IF showLineNumbers THEN ToString(lineNum) \o ":" ELSE "")
                         \o Head(lines),
                       realPath, FALSE)>>
          ELSE <<>>)
         \o grepLines(Tail(lines), lineNum + 1, realPath, virtualPath, pattern,
                      ignoreCase, showLineNumbers, showFilename)

\* grepInFile: the result lines, or the error; a file that does not look like
\* text gives neither
grepInFile(realPath, virtualPath, pattern, ignoreCase, showLineNumbers, showFilename) ==
    IF Stat(realPath) # "file"
    THEN [results |-> <<>>, acc |-> {realPath}, err |-> "cannot read file"]
    ELSE IF Unreadable(realPath)
    THEN [results |-> <<>>, acc |-> {realPath}, err |-> OpenError(realPath)]
    ELSE IF FileSize(realPath) > GrepMax
    THEN [results |-> <<>>, acc |-> {realPath}, err |-> "file too large"]
    ELSE IF ~looksText(FileLines(Phys(realPath)))
    THEN [results |-> <<>>, acc |-> {realPath}, err |-> ""]
    ELSE [results |-> grepLines(FileLines(Phys(realPath)), 1, realPath, virtualPath, pattern,
                                ignoreCase, showLineNumbers, showFilename),
          acc |-> {realPath}, err |-> ""]

\* grepInDirectory, the body of its loop for one entry, and the loop; what a
\* file or a directory below returns as its error is dropped
RECURSIVE grepInDirectory(_, _, _, _, _)
NoError(g) == [results |-> g.results, acc |-> g.acc, err |-> ""]

Searched(reads, g) == [results |-> g.results, acc |-> reads \cup g.acc]

grepEntry(realEntryPath, virtualEntryPath, name, isDir, pattern, ignoreCase, showLineNumbers, walk) ==
    IF HasPrefix(name, ".") THEN Found
    ELSE IF walk.ignored THEN [results |-> <<>>, acc |-> walk.reads]
    ELSE Searched(walk.reads,
                  IF isDir
                  THEN grepInDirectory(realEntryPath, virtualEntryPath, pattern,
                                       ignoreCase, showLineNumbers)
                  ELSE grepInFile(realEntryPath, virtualEntryPath, pattern,
                                  ignoreCase, showLineNumbers, TRUE))

RECURSIVE grepEntries(_, _, _, _, _, _)
grepEntries(realPath, virtualPath, pattern, ignoreCase, showLineNumbers, names) ==
    IF names = <<>> THEN Found
    ELSE Both(grepEntry(pathJoin(realPath, Head(names)), pathJoin(virtualPath, Head(names)),
                        Head(names), EntryIsDir(realPath, Head(names)), pattern,
                        ignoreCase, showLineNumbers,
                        shouldIgnoreWalk(pathJoin(realPath, Head(names)), Head(names))),
              grepEntries(realPath, virtualPath, pattern, ignoreCase, showLineNumbers,
                          Tail(names)))

grepInDirectory(realPath, virtualPath, pattern, ignoreCase, showLineNumbers) ==
    IF Unreadable(realPath)
    THEN [results |-> <<>>, acc |-> {realPath}, err |-> OpenError(realPath)]
    ELSE
    NoError(Searched({realPath},
                     grepEntries(realPath, virtualPath, pattern, ignoreCase,
                                 showLineNumbers, ReadDir(realPath))))

\* the argument loop of grep: flags, then the pattern, then the files
RECURSIVE grepArgs(_, _)
grepArgs(argv, acc) ==
    IF argv = <<>> THEN acc
    ELSE LET arg == Head(argv)
         IN  IF HasPrefix(arg, "-")
             THEN grepArgs(Tail(argv),
                           [acc EXCEPT !.recursive = @ \/ Contains(arg, "r"),
                                       !.ignoreCase = @ \/ Contains(arg, "i"),
                                       !.showLineNumbers = @ \/ Contains(arg, "n")])
             ELSE IF acc.pattern = ""
             THEN grepArgs(Tail(argv), [acc EXCEPT !.pattern = arg])
             ELSE grepArgs(Tail(argv), [acc EXCEPT !.files = Append(@, arg)])

\* an error line of grep about one of its operands
grepNote(file, text) == <<Entry("grep: " \o file \o ": " \o text, "", FALSE)>>

\* what grep appends for a file operand: its lines, then its error if any
grepFileNote(file, g) ==
    [results |-> g.results \o (IF g.err # "" THEN grepNote(file, g.err) ELSE <<>>),
     acc |-> g.acc]

\* the body of the loop of grep for the operand file, joined to vp, translated
\* to rv
grepOperand(file, vp, rv, o, many) ==
    IF rv.err THEN [results |-> grepNote(file, "permission denied"), acc |-> {}]
    ELSE IF Stat(rv.path) = "none"
    THEN [results |-> grepNote(file, "no such file or directory"), acc |-> {rv.path}]
    ELSE IF Stat(rv.path) = "dir"
    THEN IF o.recursive
         THEN grepFileNote(file, grepInDirectory(rv.path, vp, o.pattern, o.ignoreCase,
                                                 o.showLineNumbers))
         ELSE [results |-> grepNote(file, "is a directory"), acc |-> {rv.path}]
    ELSE grepFileNote(file, grepInFile(rv.path, vp, o.pattern, o.ignoreCase,
                                       o.showLineNumbers, many))

\* the loop of grep, ended by the first operand that is missing or rejected
RECURSIVE grepOperandsAborting(_, _, _, _)
grepOperandsAborting(cwd, o, files, many) ==
    IF files = <<>> THEN Found
    ELSE IF realFromVirtual(joinVirtual(cwd, Head(files))).err
            \/ Stat(realFromVirtual(joinVirtual(cwd, Head(files))).path) = "none"
    THEN grepOperand(Head(files), joinVirtual(cwd, Head(files)),
                     realFromVirtual(joinVirtual(cwd, Head(files))), o, many)
    ELSE Both(grepOperand(Head(files), joinVirtual(cwd, Head(files)),
                          realFromVirtual(joinVirtual(cwd, Head(files))), o, many),
              grepOperandsAborting(cwd, o, Tail(files), many))

\* the loop of grep over its file operands
RECURSIVE grepOperands(_, _, _, _)
grepOperands(cwd, o, files, many) ==
    IF files = <<>> THEN Found
    ELSE Both(grepOperand(Head(files), joinVirtual(cwd, Head(files)),
                          realFromVirtual(joinVirtual(cwd, Head(files))), o, many),
              grepOperands(cwd, o, Tail(files), many))

\* the response of grep for what the loop appended
grepReply(g) ==
    IF g.results = <<>> THEN Out("grep: no matches found", g.acc)
    ELSE [Reply EXCEPT !.entries = g.results, !.acc = g.acc,
                       !.content = {e.real : e \in SeqToSet(g.results)} \ {""}]

\* grep once its arguments o are parsed
grepWith(cwd, o) ==
    IF o.pattern = "" THEN Out("grep: missing pattern", {})
    ELSE IF o.files = <<>> /\ ~o.recursive THEN Out("grep: no files specified", {})
    ELSE IF o.files = <<>> THEN grepReply(grepOperands(cwd, o, <<".">>, FALSE))
    ELSE grepReply(grepOperands(cwd, o, o.files, Len(o.files) > 1))

execGrep(cwd, argv) ==
    IF Len(argv) < 1 THEN Out("grep: missing pattern", {})
    ELSE grepWith(cwd, grepArgs(argv, [recursive |-> FALSE, ignoreCase |-> FALSE,
                                       showLineNumbers |-> FALSE, pattern |-> "",
                                       files |-> <<>>]))

\* url on a file that exists: refused when a rule ignores it
urlShare(vp, realPath, walk) ==
    IF walk.ignored THEN Out("url: file is ignored", {realPath} \cup walk.reads)
    ELSE [Reply EXCEPT !.output = "Shareable URL: http://host/api/static" \o vp,
                       !.entries = <<Entry(vp, realPath, FALSE)>>,
                       !.acc = {realPath} \cup walk.reads]

\* url once its operand is joined to vp and translated to rv
urlOf(vp, rv) ==
    IF rv.err THEN Out("url: permission denied", {})
    ELSE IF Stat(rv.path) = "none" THEN Out("url: no such file or directory", {rv.path})
    ELSE IF Stat(rv.path) = "dir"
    THEN Out("url: cannot share directories (use 'get' to download as zip)", {rv.path})
    ELSE urlShare(vp, rv.path, shouldIgnoreWalk(rv.path, pathBase(rv.path)))

execUrl(cwd, argv) ==
    IF Len(argv) < 1 THEN Out("url: missing file operand", {})
    ELSE urlOf(joinVirtual(cwd, argv[1]), realFromVirtual(joinVirtual(cwd, argv[1])))

\* sum once its operand is translated to rv
sumOf(rv) ==
    IF rv.err THEN Out("sum: permission denied", {})
    ELSE IF Stat(rv.path) = "none" THEN Out("sum: no such file or directory", {rv.path})
    ELSE IF Stat(rv.path) = "dir" THEN Out("sum: is a directory", {rv.path})
    ELSE [Reply EXCEPT !.output = "MD5 SHA256", !.content = {rv.path}, !.acc = {rv.path}]

execSum(cwd, argv) ==
    IF Len(argv) < 1 THEN Out("sum: missing file operand", {})
    ELSE sumOf(realFromVirtual(joinVirtual(cwd, argv[1])))

-----------------------------------------------------------------------------
(* handleExec                                                               *)

\* the switch of handleExec on the command name
runCommand(cwd, cmd, argv) ==
    CASE cmd = "pwd"  -> Out(cwd, {})
      [] cmd = "help" -> Out("help", {})
      [] cmd \in {"ls", "dir"} -> execLs(cwd, argv)
      [] cmd = "cd"   -> cdOutcome(cwd, argv)
      [] cmd = "cat"  -> execCat(cwd, argv)
      [] cmd \in {"get", "rget", "wget", "download"} -> execGet(cwd, argv)
      [] cmd = "tree" -> execTree(cwd, argv)
      [] cmd = "find" -> execFind(cwd, argv)
      [] cmd \in {"url", "share"} -> execUrl(cwd, argv)
      [] cmd = "grep" -> execGrep(cwd, argv)
      [] cmd \in {"sum", "checksum"} -> execSum(cwd, argv)
      [] cmd = "stats" -> Out("stats: no log file configured (use -logfile flag)", {})
      [] OTHER -> Out("sh: " \o cmd \o ": command not found", {})

\* handleExec on the tokens of a line that is not blank: args[0] of no tokens
\* is an index out of range
execTokens(cwd, args) ==
    IF args = <<>> THEN [Reply EXCEPT !.status = "panic"]
    ELSE runCommand(cwd, Head(args), Tail(args))

\* the response of handleExec to an input line, for the cwd the handler read;
\* a cd reports the new cwd it decided on (setcwd, newcwd).  The server of this
\* model runs without -logfile.
handleExec(cwd, input) ==
    IF TrimSpace(input) = "" THEN Out("", {})
    ELSE execTokens(cwd, parseArgs(TrimSpace(input)))

-----------------------------------------------------------------------------
(* The other endpoints                                                      *)

Http(status, acc) == [Reply EXCEPT !.kind = "http", !.status = status, !.acc = acc]

\* the loop of sendZipArchive, ended by the first item that cannot be opened
RECURSIVE zipEntriesAborting(_)
zipEntriesAborting(files) ==
    IF files = <<>> THEN <<>>
    ELSE IF Stat(Head(files).real) = "file"
         THEN <<Head(files)>> \o zipEntriesAborting(Tail(files))
         ELSE IF Stat(Head(files).real) = "dir"
         THEN <<[Head(files) EXCEPT !.dir = TRUE]>> \o zipEntriesAborting(Tail(files))
         ELSE <<>>

\* the loop of sendZipArchive: an item that cannot be opened is skipped; one
\* that opens gets its entry, written without content (dir) when it is a
\* directory, which cannot be copied
RECURSIVE zipEntries(_)
zipEntries(files) ==
    IF files = <<>> THEN <<>>
    ELSE IF Stat(Head(files).real) = "file"
         THEN <<Head(files)>> \o zipEntries(Tail(files))
         ELSE IF Stat(Head(files).real) = "dir"
         THEN <<[Head(files) EXCEPT !.dir = TRUE]>> \o zipEntries(Tail(files))
         ELSE zipEntries(Tail(files))

\* the archive response with the entries z written for the listed files
zipReply(z, files, acc) ==
    [Reply EXCEPT !.kind = "http", !.status = "200", !.entries = z,
                  !.content = {e.real : e \in {x \in SeqToSet(z) : ~x.dir}},
                  !.acc = acc \cup {e.real : e \in SeqToSet(files)}]

sendZipArchive(files, acc) == zipReply(zipEntries(files), files, acc)

\* the path= branch of handleDownload, for the translated path
downloadFile(rv) ==
    IF rv.err THEN Http("403", {})
    ELSE IF Stat(rv.path) = "none" THEN Http("404", {rv.path})
    ELSE IF Stat(rv.path) = "dir" THEN Http("400", {rv.path})
    ELSE [Reply EXCEPT !.kind = "http", !.status = "200",
                       !.content = {rv.path}, !.acc = {rv.path}]

\* the archive of the files collected below a directory
zipCollected(realPath, c) == sendZipArchive(c.files, {realPath} \cup c.acc)

\* the dir= branch, for the cleaned path vp translated to rv
downloadDir(vp, rv) ==
    IF rv.err THEN Http("403", {})
    ELSE IF Stat(rv.path) = "none" THEN Http("404", {rv.path})
    ELSE IF Stat(rv.path) # "dir" THEN Http("400", {rv.path})
    ELSE zipCollected(rv.path, collectFilesFromDirectory(vp, rv.path))

\* the pattern= branch, for what collectFilesForDownload returned
downloadPattern(c) ==
    IF c.err # "" THEN Http("500", c.acc)
    ELSE IF Len(c.files) = 0 THEN Http("404", c.acc)
    ELSE sendZipArchive(c.files, c.acc)

\* handleDownload: q.path, q.dir, q.pattern and q.cwd are the query parameters
\* ("" when absent)
handleDownload(cwd, q) ==
    IF q.path # ""
    THEN downloadFile(realFromVirtual(joinVirtual(cwd, cleanVirtual(q.path))))
    ELSE IF q.dir # ""
    THEN downloadDir(cleanVirtual(q.dir), realFromVirtual(cleanVirtual(q.dir)))
    ELSE IF q.pattern # ""
    THEN downloadPattern(collectFilesForDownload(IF q.cwd = "" THEN cwd ELSE q.cwd,
                                                 q.pattern))
    ELSE Http("400", {})

\* the answer of serveFile, for what shouldIgnore found
served(realPath, walk) ==
    IF walk.ignored THEN Http("404", {realPath} \cup walk.reads)
    ELSE [Reply EXCEPT !.kind = "http", !.status = "200", !.content = {realPath},
                       !.acc = {realPath} \cup walk.reads]

\* serveFile: an ignored file is answered as not found
serveFile(realPath) == served(realPath, shouldIgnoreWalk(realPath, pathBase(realPath)))

\* the file a static URL names, once translated
staticFile(rv) ==
    IF rv.err THEN Http("404", {})
    ELSE IF Stat(rv.path) # "file" THEN Http("404", {rv.path})
    ELSE serveFile(rv.path)

\* handleStaticFile, for the URL path of the request
handleStaticFile(urlPath) ==
    staticFile(realFromVirtual(pathClean(TrimPrefix(urlPath, "/api/static"))))

\* the filters of handleComplete on the entry name of the base directory
completeKeeps(name, fp, isDir, basePart, q) ==
    /\ HasPrefix(name, basePart)
    /\ (HasPrefix(basePart, ".") \/ ~HasPrefix(name, "."))
    /\ (~q.dirsOnly \/ isDir)
    /\ ~ /\ (q.textOnly \/ q.maxSize > 0)
          /\ ~isDir
          /\ \/ (q.maxSize > 0 /\ Stat(fp) = "file" /\ FileSize(fp) > q.maxSize)
             \/ (q.textOnly /\ Stat(fp) # "file")

\* the loop of handleComplete over the entries of the base directory
RECURSIVE completeItems(_, _, _, _)
completeItems(baseR, names, basePart, q) ==
    IF names = <<>> THEN <<>>
    ELSE (IF completeKeeps(Head(names), pathJoin(baseR, Head(names)),
                           EntryIsDir(baseR, Head(names)), basePart, q)
          THEN <<Entry(Head(names), pathJoin(baseR, Head(names)),
                       EntryIsDir(baseR, Head(names)))>>
          ELSE <<>>)
         \o completeItems(baseR, Tail(names), basePart, q)

\* the items S in the order names of their names
inOrder(S, names) == [i \in 1..Len(names) |-> CHOOSE e \in S : e.name = names[i]]

\* sort.Slice of the completion items by name
byName(S) == inOrder(S, SortStrings({e.name : e \in S}))

\* the response of handleComplete for the items it kept
completeReply(realPath, items, q) ==
    [Reply EXCEPT !.kind = "http", !.status = "200",
                  !.entries = byName({e \in SeqToSet(items) : e.dir})
                                 \o byName({e \in SeqToSet(items) : ~e.dir}),
                  !.acc = {realPath} \cup
                          (IF q.textOnly THEN {e.real : e \in {x \in SeqToSet(items) : ~x.dir}}
                           ELSE {})]

\* handleComplete once the base directory is translated to rv
completeIn(rv, basePart, q) ==
    IF rv.err THEN Http("200", {})
    ELSE IF Stat(rv.path) # "dir" THEN Http("200", {rv.path})
    ELSE completeReply(rv.path, completeItems(rv.path, ReadDir(rv.path), basePart, q), q)

\* the text before and including the last slash, and the text after it
dirPartOf(path) == SubSeq(path, 1, LastSlash(path))

basePartOf(path) == SubSeq(path, LastSlash(path) + 1, Len(path))

\* handleComplete: q.path is the text to complete, q.dirsOnly, q.textOnly and
\* q.maxSize the filters of the request (the tree stays below the 200 items
\* at which the handler stops)
handleComplete(cwd, q) ==
    completeIn(realFromVirtual(IF HasPrefix(q.path, "/") THEN cleanVirtual(dirPartOf(q.path))
                               ELSE joinVirtual(cwd, dirPartOf(q.path))),
               basePartOf(q.path), q)

\* handleConfig's test of the new cwd newV, translated to rv
configTo(newV, rv) ==
    IF rv.err THEN Http("200", {})
    ELSE IF Stat(rv.path) # "dir" THEN Http("200", {rv.path})
    ELSE [Reply EXCEPT !.kind = "http", !.status = "200", !.setcwd = TRUE,
                       !.newcwd = newV, !.acc = {rv.path}]

\* what handleConfig decides from the path parameter: the cwd to store, if any
configOutcome(initialPath) ==
    IF initialPath = "" THEN Http("200", {})
    ELSE configTo(cleanVirtual(initialPath), realFromVirtual(cleanVirtual(initialPath)))

\* the rest of handleConfig, for the cwd the session then has: the README of
\* that directory is looked up
configReadme(cwd) ==
    IF cwd = "/" THEN readDocFileAcc(RootAbs)
    ELSE IF realFromVirtual(cwd).err THEN {}
    ELSE readDocFileAcc(realFromVirtual(cwd).path)

\* the plain listing of a directory that handleIndex renders with nojs
indexListing(realPath, o) ==
    [Reply EXCEPT
        !.kind = "http", !.status = "200",
        !.entries = [i \in 1..Len(o) |->
                       Entry(o[i], pathJoin(realPath, o[i]), EntryIsDir(realPath, o[i]))],
        !.acc = {realPath} \cup IgnoreReads(realPath, {n \in ChildNames(realPath) :
                                                          ~HasPrefix(n, ".")})]

\* handleIndex once the URL path is translated to rv
indexOf(rv, noJS) ==
    IF rv.err THEN Http(IF noJS THEN "404" ELSE "index", {})
    ELSE IF Stat(rv.path) = "none" THEN Http(IF noJS THEN "404" ELSE "index", {rv.path})
    ELSE IF Stat(rv.path) = "file" THEN serveFile(rv.path)
    ELSE IF ~noJS THEN Http("index", {rv.path})
    ELSE indexListing(rv.path,
                      treeSorted(rv.path,
                                 SeqToSet(lsNames(rv.path, ReadDir(rv.path), FALSE))))

\* handleIndex for a URL path other than "/": a file is served, anything else
\* gets the index page (or, with nojs, a plain listing of the directory)
handleIndex(urlPath, noJS) == indexOf(realFromVirtual(pathClean(urlPath)), noJS)

-----------------------------------------------------------------------------
(* Values shared by the specifications                                      *)

NoResp == [kind |-> "none"]

NoCall == [op |-> "none"]

\* the strings over a set of characters, up to a length
RECURSIVE StringsUpTo(_, _)
StringsUpTo(chars, n) ==
    IF n = 0 THEN {""}
    ELSE LET S == StringsUpTo(chars, n - 1)
         IN  S \cup {c \o s : c \in chars, s \in {x \in S : Len(x) = n - 1}}

PathChars == {"/", ".", "a"}

-----------------------------------------------------------------------------
(* Sessions                                                                 *)

SeqSessions == 1     \* sessions the server creates when it serves one request at a time

MaxSessions == 2     \* sessions it creates when it serves requests concurrently

HexDigits == "0123456789abcdef"

\* fmt.Sprintf("%x", b) of a byte slice: two hex digits for every byte
RECURSIVE Sprintx(_)
Sprintx(b) ==
    IF b = <<>> THEN ""
    ELSE Ch(HexDigits, (Head(b) \div 16) + 1) \o Ch(HexDigits, (Head(b) % 16) + 1)
             \o Sprintx(Tail(b))

\* the 16 bytes rand.Read fills in: of all the values it can give, the model
\* takes those that end in i and are zero elsewhere
RandBytes(i) == [k \in 1..16 |-> IF k = 16 THEN i ELSE 0]

\* the ids newSID can return; the server stops creating sessions after cap
SIDs(cap) == {Sprintx(RandBytes(i)) : i \in 1..cap}

\* what a request may carry as its sid cookie: an id, nothing, or a value the
\* server never issued
Cookies(cap) == SIDs(cap) \cup {"", "forged"}

\* a Go string is two words, a data pointer and a length; the pointer is
\* modelled by the text it points to
StringWords(v) == [ptr |-> v, len |-> Len(v)]

RECURSIVE StringsOfLen(_, _)
StringsOfLen(chars, n) ==
    IF n = 0 THEN {""} ELSE {c \o t : c \in chars, t \in StringsOfLen(chars, n - 1)}

\* bytes that may follow a string in memory
StrayChars == {"/", "x"}

\* the strings a read of the two words can yield: the first len bytes at ptr,
\* which run past the text when the words come from two different writes
CwdReads(c) ==
    IF c.len <= Len(c.ptr) THEN {SubSeq(c.ptr, 1, c.len)}
    ELSE {c.ptr \o g : g \in StringsOfLen(StrayChars, c.len - Len(c.ptr))}

\* a getSession that takes a value the client sent for the id of the session
\* it creates
SessionIdsAdopting(cookie, cap) ==
    IF cookie \in DOMAIN sessions THEN {cookie}
    ELSE IF Cardinality(DOMAIN sessions) >= cap THEN {}
    ELSE IF cookie # "" THEN {cookie}
    ELSE SIDs(cap) \ DOMAIN sessions

\* getSession: the ids the request can end up with, its own when the cookie is
\* a key of the map, otherwise the one newSID returns.  The 128 random bits
\* of newSID are taken to differ from every key of the map and from what the
\* client sent.
SessionIds(cookie, cap) ==
    IF cookie \in DOMAIN sessions THEN {cookie}
    ELSE IF Cardinality(DOMAIN sessions) < cap
    THEN SIDs(cap) \ (DOMAIN sessions \cup {cookie})
    ELSE {}

\* the Set-Cookie header of the response: the id of a session just created
SetCookie(cookie, sid) == IF cookie \in DOMAIN sessions THEN "" ELSE sid

\* the session map once getSession has returned sid
WithSession(sid) ==
    [x \in DOMAIN sessions \cup {sid} |->
        IF x \in DOMAIN sessions THEN sessions[x] ELSE StringWords("/")]

\* a store that goes to the cwd of every session, as if the server kept one
StoreWordShared(map, sid, word, v) ==
    [x \in DOMAIN map |-> [map[x] EXCEPT ![word] = v]]

\* sess.cwd = newV is two stores, one for each word of the string
StoreWord(map, sid, word, v) == [map EXCEPT ![sid][word] = v]

\* the session map after a handler that decided r ran for session sid alone
Commit(map, sid, r) ==
    IF r.setcwd
    THEN StoreWord(StoreWord(map, sid, "ptr", r.newcwd), sid, "len", Len(r.newcwd))
    ELSE map

\* a response together with the request it answers
Tag(r, ep, req, sid, cwd, cookie) ==
    r @@ [ep |-> ep, req |-> req, sid |-> sid, cwd |-> cwd, cookie |-> cookie,
          setcookie |-> SetCookie(cookie, sid)]

-----------------------------------------------------------------------------
(* The server, one request at a time: every handler is one step, and the    *)
(* response stays in resp until it is delivered                             *)

\* a tree: the lines of the rule files of /r, /r/d and /r/..e, and the symlink
Tree(a, b, c, l) ==
    [rules |-> [d \in RuleDirs |-> CASE d = "/r" -> a [] d = "/r/d" -> b [] OTHER -> c],
     link |-> l,
     locked |-> {},
     dangling |-> FALSE]

Trees ==
    {Tree(<<>>, <<>>, <<>>, FALSE),
     Tree(<<>>, <<"b.t">>, <<>>, FALSE),
     Tree(<<"*.t">>, <<>>, <<>>, FALSE),
     Tree(<<"d">>, <<>>, <<>>, FALSE),
     Tree(<<"# c", "d/s/*">>, <<>>, <<>>, FALSE),
     Tree(<<>>, <<"s">>, <<>>, FALSE),
     Tree(<<>>, <<"", " s/c ">>, <<>>, FALSE),
     Tree(<<>>, <<>>, <<"x">>, FALSE),
     Tree(<<>>, <<>>, <<".l*">>, FALSE),
     Tree(<<>>, <<>>, <<>>, TRUE),
     Tree(<<"p">>, <<"b.t">>, <<>>, TRUE)}

ExecInputs ==
    {"pwd", "help", "zz", "  ", "''", "stats",
     "ls", "ls -a", "ls -la d", "ls b.t", "ls /..e", "ls l", "ls ../..", "ls /d/s",
     "cd", "cd d", "cd s", "cd ..", "cd /d/s", "cd /a.t", "cd zz", "cd /..e", "cd l",
     "cd ../../o",
     "cat", "cat a.t", "cat b.t", "cat /d/b.t", "cat d", "cat /l/p", "cat ../../o/p",
     "cat s/c", "cat /.h/y", "cat /..e/x",
     "get .", "get *.t", "get d/*.t", "get d", "get b.t", "get /", "get /..e", "get l/*",
     "get zz", "get /d/s",
     "tree", "tree -a", "tree -L1", "tree -a /", "tree d", "tree l", "tree -L0",
     "tree -a -L2 /",
     "find", "find / -name *.t", "find -type f", "find / -type d", "find / -name .*",
     "find -type x", "find l",
     "url a.t", "url b.t", "url d", "url /d/s/c", "url /l/p",
     "grep -r w", "grep w b.t", "grep -n w a.t b.t zz", "grep -r w /", "grep w d", "grep w d/s/c", "grep w zz d /..e/x a.t",
     "grep -ri K /l",
     "sum a.t", "sum b.t", "sum /l/p"}

Query(path, dir, pattern, cwd) == [path |-> path, dir |-> dir, pattern |-> pattern, cwd |-> cwd]

DownloadQueries ==
    {Query(x, "", "", "") : x \in {"/a.t", "b.t", "/d/b.t", "/l/p", "/../o/p", "/d"}}
    \cup {Query("", x, "", "") : x \in {"/", "/d", "/l", "/..e", "/../o", "/a.t"}}
    \cup {Query("", "", "*.t", ""), Query("", "", "*.t", "/d"), Query("", "", "*", "/l"),
          Query("", "", ".", "/../o"), Query("", "", "d", ""), Query("", "", "s/*", "d"),
          Query("", "", "", "")}

StaticPaths ==
    {"/api/static/a.t", "/api/static/d/b.t", "/api/static/d", "/api/static/l/p",
     "/api/static/../o/p", "/api/static"}

CompleteQueries ==
    {[path |-> x, dirsOnly |-> FALSE, textOnly |-> FALSE, maxSize |-> 0] :
        x \in {"", "b", "/d/", ".", "/l/", "../../o/"}}
    \cup {[path |-> "", dirsOnly |-> TRUE, textOnly |-> FALSE, maxSize |-> 0],
          [path |-> "", dirsOnly |-> FALSE, textOnly |-> TRUE, maxSize |-> 4]}

ConfigPaths == {"", "/d", "d/s", "/a.t", "/..e", "/l", "/../o", "/zz"}

IndexRequests ==
    {[path |-> x, nojs |-> FALSE] : x \in {"/a.t", "/d/b.t", "/l/p", "/d", "/../o/p"}}
    \cup {[path |-> x, nojs |-> TRUE] : x \in {"/", "/d", "/l", "/..e"}}

Init ==
    /\ fs \in Trees
    /\ sessions = <<>>
    /\ resp = NoResp
    /\ thr = <<>>
    /\ pin = [v |-> ""]
    /\ pout = NoCall

\* POST /api/exec
ExecRequest ==
    /\ resp = NoResp
    /\ \E cookie \in Cookies(SeqSessions), input \in ExecInputs :
         \E sid \in SessionIds(cookie, SeqSessions) :
           \E cwd \in CwdReads(WithSession(sid)[sid]) :
             \E r \in {handleExec(cwd, input)} :
                 /\ sessions' = Commit(WithSession(sid), sid, r)
                 /\ resp' = Tag(r, "exec", [input |-> input], sid, cwd, cookie)
    /\ UNCHANGED <<fs, thr, pin, pout>>

\* GET /api/download
DownloadRequest ==
    /\ resp = NoResp
    /\ \E cookie \in Cookies(SeqSessions), q \in DownloadQueries :
         \E sid \in SessionIds(cookie, SeqSessions) :
           \E cwd \in CwdReads(WithSession(sid)[sid]) :
             /\ sessions' = WithSession(sid)
             /\ resp' = Tag(handleDownload(cwd, q), "download", q, sid, cwd, cookie)
    /\ UNCHANGED <<fs, thr, pin, pout>>

\* GET /api/static/...
StaticRequest ==
    /\ resp = NoResp
    /\ \E p \in StaticPaths :
         resp' = Tag(handleStaticFile(p), "static", [path |-> p], "", "", "")
    /\ UNCHANGED <<fs, sessions, thr, pin, pout>>

\* POST /api/complete
CompleteRequest ==
    /\ resp = NoResp
    /\ \E cookie \in Cookies(SeqSessions), q \in CompleteQueries :
         \E sid \in SessionIds(cookie, SeqSessions) :
           \E cwd \in CwdReads(WithSession(sid)[sid]) :
             /\ sessions' = WithSession(sid)
             /\ resp' = Tag(handleComplete(cwd, q), "complete", q, sid, cwd, cookie)
    /\ UNCHANGED <<fs, thr, pin, pout>>

\* GET /api/config
ConfigRequest ==
    /\ resp = NoResp
    /\ \E cookie \in Cookies(SeqSessions), p \in ConfigPaths :
         \E sid \in SessionIds(cookie, SeqSessions) :
           \E cwd \in CwdReads(WithSession(sid)[sid]) :
             \E r \in {configOutcome(p)} :
               \E now \in {IF r.setcwd THEN r.newcwd ELSE cwd} :
                 /\ sessions' = Commit(WithSession(sid), sid, r)
                 /\ resp' = Tag([r EXCEPT !.output = now, !.acc = @ \cup configReadme(now)],
                                "config", [path |-> p], sid, cwd, cookie)
    /\ UNCHANGED <<fs, thr, pin, pout>>

\* GET of any other path
IndexRequest ==
    /\ resp = NoResp
    /\ \E q \in IndexRequests :
         resp' = Tag(handleIndex(q.path, q.nojs), "index", q, "", "", "")
    /\ UNCHANGED <<fs, sessions, thr, pin, pout>>

\* the response reaches the client
Deliver ==
    /\ resp # NoResp
    /\ resp' = NoResp
    /\ UNCHANGED <<fs, sessions, thr, pin, pout>>

Next ==
    \/ ExecRequest
    \/ DownloadRequest
    \/ StaticRequest
    \/ CompleteRequest
    \/ ConfigRequest
    \/ IndexRequest
    \/ Deliver

Spec == Init /\ [][Next]_vars

-----------------------------------------------------------------------------
(* Specification of the path functions: the input is any string over        *)
(* PathChars up to MaxLen, the one step applies the function to it          *)

PathInit ==
    /\ pin \in {[v |-> v] : v \in StringsUpTo(PathChars, MaxLen)}
    /\ pout = NoCall
    /\ fs = Tree(<<>>, <<>>, <<>>, FALSE)
    /\ sessions = <<>>
    /\ resp = NoResp
    /\ thr = <<>>

PathResolve ==
    /\ pout = NoCall
    /\ pout' = [op |-> "realFromVirtual", r |-> realFromVirtual(pin.v)]
    /\ UNCHANGED <<pin, fs, sessions, resp, thr>>

\* cleanVirtual of the input, and of its result
PathCleanVirtual ==
    /\ pout = NoCall
    /\ pout' = [op |-> "cleanVirtual", r |-> cleanVirtual(pin.v),
                again |-> cleanVirtual(cleanVirtual(pin.v))]
    /\ UNCHANGED <<pin, fs, sessions, resp, thr>>

\* the bases the input is joined to
JoinBases == {"", "/", "/a", "/a/a", "/a/..", "a", "/a/"}

\* joinVirtual of a base and the input
PathJoinVirtual ==
    /\ pout = NoCall
    /\ \E base \in JoinBases :
         pout' = [op |-> "joinVirtual", base |-> base, r |-> joinVirtual(base, pin.v)]
    /\ UNCHANGED <<pin, fs, sessions, resp, thr>>

PathNext ==
    \/ PathResolve
    \/ PathCleanVirtual
    \/ PathJoinVirtual

SpecPath == PathInit /\ [][PathNext]_vars

\* C1: for every virtual path string, realFromVirtual returns an error or a
\* real path that is the root or lies beneath the root; never a path outside
C1_Containment ==
    pout.op = "realFromVirtual" => (pout.r.err \/ Inside(pout.r.path))

\* a path with leading ".." segments and a name resolves beneath the root
C1_Witness ==
    /\ pout.op = "realFromVirtual"
    /\ HasPrefix(pin.v, "../")
    /\ ~pout.r.err
    /\ pout.r.path # RootAbs
    /\ Inside(pout.r.path)

-----------------------------------------------------------------------------
(* The terms of the statements about responses                              *)

\* p lies strictly beneath directory d
Beneath(p, d) == HasPrefix(p, d \o "/")

\* a pattern in the rule file of a directory from real's own up to the root
\* matches real's name or its path relative to that directory
MatchedByRule(real) ==
    \E d \in RuleDirs :
        /\ Beneath(real, d)
        /\ \E i \in 1..Len(fs.rules[d]) :
             LET pat == TrimSpace(fs.rules[d][i])
             IN  /\ pat # ""
                 /\ ~HasPrefix(pat, "#")
                 /\ (Match(pat, pathBase(real)) \/ Match(pat, filepathRel(d, real)))

\* the tokens of the command line an exec response answers
Argv(r) == IF r.ep = "exec" THEN parseArgs(TrimSpace(r.req.input)) ELSE <<>>

Cmd(r) == IF Argv(r) = <<>> THEN "" ELSE Argv(r)[1]

\* the place a virtual path names, read from the request's cwd
Place(cwd, arg) == pathJoin(RootAbs, joinVirtual(cwd, arg))

\* the places the arguments of a command name
Named(r) == {Place(r.cwd, Argv(r)[i]) : i \in 2..Len(Argv(r))}

\* the real paths a response lists
Listed(r) == {r.entries[i].real : i \in 1..Len(r.entries)}

\* the real paths a response shows: listed, or given with their content
Shown(r) == Listed(r) \cup r.content

\* C2: in a tree without symlinks every path a handler passes to Stat,
\* ReadDir or Open, or opens as a rule file, is the root or lies beneath it,
\* whatever the arguments, the query parameters and the session cwd
C2_AccessInsideRoot ==
    (resp # NoResp /\ ~fs.link) => \A p \in resp.acc : Inside(p)

\* a cat whose operand climbs out of the root touched a path, a download with
\* a client-supplied cwd above the root walked a directory
C2_Witness ==
    /\ resp # NoResp
    /\ ~fs.link
    /\ \/ (resp.ep = "exec" /\ resp.req.input = "cat ../../o/p" /\ resp.acc = {"/r/o/p"})
       \/ (resp.ep = "download" /\ resp.req.cwd = "/../o" /\ resp.req.pattern = "."
             /\ "/r/o" \in resp.acc)

\* the listing and search commands and the archive endpoint
Lists(r) == r.ep = "download" \/ Cmd(r) \in {"ls", "dir", "find", "grep", "get"}

\* the tree of the scenario: b.t is listed in the rule file of /d
ScenarioTree == Tree(<<>>, <<"b.t">>, <<>>, FALSE)

\* C3: an entry that a rule of its own directory or of an ancestor matches is
\* in no listing of ls, find or grep -r and in no file set collected for an
\* archive; in the scenario find / -name *.t returns only /a.t and, in /d,
\* get *.t reports no matching files
C3_IgnoredNeverListed ==
    (resp # NoResp /\ Lists(resp)) =>
        /\ \A p \in Listed(resp) \ Named(resp) : ~MatchedByRule(p)
        /\ (fs = ScenarioTree /\ resp.ep = "exec" /\ resp.req.input = "find / -name *.t")
              => [i \in 1..Len(resp.entries) |-> resp.entries[i].name] = <<"/a.t">>
        /\ (fs = ScenarioTree /\ resp.ep = "exec" /\ resp.req.input = "get *.t"
               /\ resp.cwd = "/d")
              => resp.output = "download: no matching files found"

\* the archive of the root holds x, which the rule file beside it lists
C3_Witness ==
    /\ resp # NoResp
    /\ resp.ep = "exec"
    /\ resp.req.input = "get ."
    /\ resp.cwd = "/"
    /\ fs.rules["/r/..e"] = <<"x">>
    /\ "/r/..e/x" \in Listed(resp)

\* C4: tree renders no entry that a rule of its own directory or of an
\* ancestor matches, and its summary counts none
C4_TreeHidesIgnored ==
    (resp # NoResp /\ Cmd(resp) = "tree") =>
        LET kept == {i \in 1..Len(resp.entries) : ~MatchedByRule(resp.entries[i].real)}
        IN  /\ kept = 1..Len(resp.entries)
            /\ resp.dirs = Cardinality({i \in kept : resp.entries[i].dir})
            /\ resp.files = Cardinality({i \in kept : ~resp.entries[i].dir})

\* tree of /d renders b.t, which the rule file of /d lists, and counts it
C4_Witness ==
    /\ resp # NoResp
    /\ resp.ep = "exec"
    /\ resp.req.input = "tree d"
    /\ resp.cwd = "/"
    /\ fs = ScenarioTree
    /\ "/r/d/b.t" \in Listed(resp)
    /\ resp.files = 2

\* the files of the tree beneath the root
ServedFiles == {f \in TreeFiles : Beneath(f, RootAbs)}

\* the directory a listing starts at: for ls, find, get and the archive
\* endpoint the directory the request names, otherwise the request's cwd
StartDir(r) ==
    LET a == Argv(r)
    IN  CASE Cmd(r) \in {"ls", "dir"} ->
               LET ops == SelectSeq(Tail(a), LAMBDA x : ~HasPrefix(x, "-"))
               IN  IF ops = <<>> THEN Place(r.cwd, "") ELSE Place(r.cwd, ops[Len(ops)])
          [] Cmd(r) = "find" ->
               IF Len(a) > 1 /\ ~HasPrefix(a[2], "-") THEN Place(r.cwd, a[2])
               ELSE Place(r.cwd, "")
          [] Cmd(r) = "get" /\ Len(a) = 2 ->
               IF a[2] = "." THEN Place(r.cwd, "") ELSE Place(r.cwd, a[2])
          [] r.ep = "download" /\ r.req.path = "" /\ r.req.dir # "" ->
               Place("/", r.req.dir)
          [] r.ep = "download" /\ r.req.path = "" /\ r.req.dir = "" /\ r.req.pattern = "." ->
               Place("/", IF r.req.cwd = "" THEN r.cwd ELSE r.req.cwd)
          [] OTHER -> ""

\* ls of a directory
ListsDir(r) == Cmd(r) \in {"ls", "dir"}

\* find with the default pattern, and the collection of a directory's archive
ListsSubtree(r) ==
    \/ /\ Cmd(r) = "find"
       /\ LET a    == Argv(r)
              rest == IF Len(a) > 1 /\ ~HasPrefix(a[2], "-")
                      THEN SubSeq(a, 3, Len(a)) ELSE Tail(a)
          IN  rest \in {<<>>, <<"-type", "f">>}
    \/ /\ Cmd(r) = "get"
       /\ Len(Argv(r)) = 2
       /\ ~ContainsAny(Argv(r)[2], "*?[")
    \/ /\ r.ep = "download"
       /\ r.req.path = ""
       /\ (r.req.dir # "" \/ r.req.pattern = ".")

\* the statement of C5 for the files that satisfy ok
AlwaysListed(ok(_)) ==
    resp # NoResp =>
        /\ ListsDir(resp) =>
              \A f \in ServedFiles : (ok(f) /\ pathDir(f) = StartDir(resp)) => f \in Listed(resp)
        /\ ListsSubtree(resp) =>
              \A f \in ServedFiles : (ok(f) /\ Beneath(f, StartDir(resp))) => f \in Listed(resp)

\* f is not hidden and no rule matches it
Plain(f) == ~HasPrefix(pathBase(f), ".") /\ ~MatchedByRule(f)

\* f is plain and so is every directory on the way from the root to f
PlainPath(f) ==
    \A q \in {x \in TreeDirs \cup TreeFiles : Beneath(x, RootAbs) /\ (x = f \/ Beneath(f, x))} :
        Plain(q)

Serves(r) ==
    \/ r.ep \in {"static", "index", "download", "complete"}
    \/ Cmd(r) \in {"url", "share", "cat", "sum", "checksum", "get", "grep", "ls", "dir"}

\* C6: a file that a rule matches is hidden on every access path: no response
\* of url, the static endpoint, a direct URL, cat, sum, get, the download
\* endpoint, grep, ls or completion lists it or gives its content, and get of
\* its name answers with no download URL
C6_IgnoredHiddenEverywhere ==
    (resp # NoResp /\ Serves(resp)) =>
        /\ \A p \in Shown(resp) : ~MatchedByRule(p)
        /\ \A p \in Named(resp) :
              (MatchedByRule(p) /\ Stat(p) = "file") => resp.download = ""

\* cat in /d gives the content of b.t, which the rule file of /d lists
C6_Witness ==
    /\ resp # NoResp
    /\ resp.ep = "exec"
    /\ resp.req.input = "cat b.t"
    /\ resp.cwd = "/d"
    /\ fs = ScenarioTree
    /\ resp.content = {"/r/d/b.t"}

\* where a listed path is: a symlink is an entry of its own directory, what
\* lies beyond it is where the link points
Origin(p) == IF p = LinkPath THEN p ELSE Phys(p)

\* C7: no response lists an entry or gives content that lies outside the
\* root, also when the path goes through a symlink that points out of it
C7_SymlinkEscapeRejected ==
    resp # NoResp =>
        /\ \A p \in Listed(resp) \ {""} : Inside(Origin(p))
        /\ \A p \in resp.content : Inside(Phys(p))

\* cat of a path through the symlink gives the content of /o/p
C7_Witness ==
    /\ resp # NoResp
    /\ resp.ep = "exec"
    /\ resp.req.input = "cat /l/p"
    /\ fs.link
    /\ resp.content = {"/r/l/p"}
    /\ Phys("/r/l/p") = "/o/p"

\* the three error texts of cd
CdErrors == {"cd: permission denied", "cd: no such file or directory", "cd: not a directory"}

\* C9: cd stores a new cwd only when the target, joined to the cwd, lies
\* inside the root and is an existing directory, and then stores exactly that
\* path; without an argument it stores "/"; in every other case it answers
\* with one of its error texts and the session's cwd is the one it had
C9_CdCommitsAfterValidation ==
    (resp # NoResp /\ Cmd(resp) = "cd") =>
        LET argv   == Tail(Argv(resp))
            target == IF Len(argv) = 1 /\ argv[1] # "" THEN argv[1] ELSE "/"
            newV   == joinVirtual(resp.cwd, target)
        IN  /\ resp.setcwd =>
                  /\ resp.newcwd = newV
                  /\ sessions[resp.sid] = StringWords(newV)
                  /\ Inside(pathJoin(RootAbs, newV))
                  /\ Stat(pathJoin(RootAbs, newV)) = "dir"
            /\ argv = <<>> => (resp.setcwd /\ sessions[resp.sid] = StringWords("/"))
            /\ ~resp.setcwd =>
                  /\ resp.output \in CdErrors
                  /\ sessions[resp.sid] = StringWords(resp.cwd)

\* in /d, a cd to a file of the root fails and the session stays in /d
C9_Witness ==
    /\ resp # NoResp
    /\ resp.ep = "exec"
    /\ resp.req.input = "cd /a.t"
    /\ resp.cwd = "/d"
    /\ resp.output = "cd: not a directory"
    /\ sessions[resp.sid] = StringWords("/d")

-----------------------------------------------------------------------------
(* The server under concurrent requests.  net/http serves every request in  *)
(* a goroutine of its own; getSession holds the lock of the session map,    *)
(* the cwd of a session is read and written with no lock.  A handler that   *)
(* writes cwd is three steps: everything up to the assignment, and the two  *)
(* word stores of the assignment in either order.                           *)

Goroutines == {"g1", "g2"}

Idle == [pc |-> "idle"]

\* a cd that assigns "/" whatever its operand is
StoringRoot(sid, req, new) ==
    [pc |-> "store", sid |-> sid, req |-> req, new |-> StringWords("/"),
     ptr |-> FALSE, len |-> FALSE]

\* a goroutine about to assign new to the cwd of session sid
Storing(sid, req, new) ==
    [pc |-> "store", sid |-> sid, req |-> req, new |-> StringWords(new),
     ptr |-> FALSE, len |-> FALSE]

\* the goroutine once both words are stored: the handler goes on to write the
\* response
Stored(t) == [t EXCEPT !.pc = "reply", !.ptr = TRUE, !.len = TRUE]

\* the tree the concurrent server serves
ConcTree == Tree(<<>>, <<>>, <<>>, FALSE)

ConcCd == {"cd", "cd /d/s", "cd zz"}

ConcConfigPaths == {"", "/d/s", "/zz"}

\* one line for each command that is not cd
ConcOther ==
    {"pwd", "help", "ls a.t", "cat a.t", "tree .h", "find .h", "grep w a.t", "get a.t",
     "url a.t", "sum a.t", "zz"}

ConcInit ==
    /\ fs = ConcTree
    /\ sessions = <<>>
    /\ thr = [g \in Goroutines |-> Idle]
    /\ resp = NoResp
    /\ pin = [v |-> ""]
    /\ pout = NoCall

\* POST /api/exec with a cd, up to the assignment to sess.cwd
CdBegin(g) ==
    /\ thr[g] = Idle
    /\ \E cookie \in Cookies(MaxSessions), input \in ConcCd :
         \E sid \in SessionIds(cookie, MaxSessions) :
           \E cwd \in CwdReads(WithSession(sid)[sid]) :
             \E r \in {handleExec(cwd, input)} :
                 /\ sessions' = WithSession(sid)
                 /\ thr' = [thr EXCEPT
                              ![g] = IF r.setcwd THEN Storing(sid, "cd", r.newcwd) ELSE Idle]
    /\ UNCHANGED <<fs, resp, pin, pout>>

\* GET /api/config, up to the assignment to sess.cwd
ConfigBegin(g) ==
    /\ thr[g] = Idle
    /\ \E cookie \in Cookies(MaxSessions), p \in ConcConfigPaths :
         \E sid \in SessionIds(cookie, MaxSessions) :
           \E r \in {configOutcome(p)} :
               /\ sessions' = WithSession(sid)
               /\ thr' = [thr EXCEPT
                            ![g] = IF r.setcwd THEN Storing(sid, "config", r.newcwd) ELSE Idle]
    /\ UNCHANGED <<fs, resp, pin, pout>>

\* the store of the data pointer
StorePtr(g) ==
    /\ thr[g].pc = "store"
    /\ ~thr[g].ptr
    /\ sessions' = StoreWord(sessions, thr[g].sid, "ptr", thr[g].new.ptr)
    /\ thr' = [thr EXCEPT ![g] = IF thr[g].len THEN Stored(thr[g])
                                  ELSE [thr[g] EXCEPT !.ptr = TRUE]]
    /\ UNCHANGED <<fs, resp, pin, pout>>

\* the store of the length
StoreLen(g) ==
    /\ thr[g].pc = "store"
    /\ ~thr[g].len
    /\ sessions' = StoreWord(sessions, thr[g].sid, "len", thr[g].new.len)
    /\ thr' = [thr EXCEPT ![g] = IF thr[g].ptr THEN Stored(thr[g])
                                  ELSE [thr[g] EXCEPT !.len = TRUE]]
    /\ UNCHANGED <<fs, resp, pin, pout>>

\* the response is written and the handler returns
Respond(g) ==
    /\ thr[g].pc = "reply"
    /\ thr' = [thr EXCEPT ![g] = Idle]
    /\ UNCHANGED <<fs, sessions, resp, pin, pout>>

\* POST /api/exec with any other command: the handler reads cwd and answers
OtherRequest(g) ==
    /\ thr[g] = Idle
    /\ \E cookie \in Cookies(MaxSessions), input \in ConcOther :
         \E sid \in SessionIds(cookie, MaxSessions) :
           \E cwd \in CwdReads(WithSession(sid)[sid]) :
             sessions' = Commit(WithSession(sid), sid, handleExec(cwd, input))
    /\ UNCHANGED <<fs, thr, resp, pin, pout>>

ConcNext ==
    \E g \in Goroutines :
        \/ CdBegin(g)
        \/ ConfigBegin(g)
        \/ StorePtr(g)
        \/ StoreLen(g)
        \/ Respond(g)
        \/ OtherRequest(g)

SpecConc == ConcInit /\ [][ConcNext]_vars

\* v begins with '/' and has no empty, '.' or '..' segment
Normalized(v) ==
    /\ HasPrefix(v, "/")
    /\ v # "/" =>
         LET segs == Split(Tail(v))
         IN  \A i \in 1..Len(segs) : segs[i] \notin {"", ".", ".."}

\* v is normalized and names an existing directory inside the root
ValidCwd(v) ==
    /\ Normalized(v)
    /\ Inside(pathJoin(RootAbs, v))
    /\ Stat(pathJoin(RootAbs, v)) = "dir"

\* C8: in every state, under any interleaving of requests, the cwd of every
\* session reads as a normalized virtual path that names an existing
\* directory inside the root
C8_CwdAlwaysValid ==
    \A sid \in DOMAIN sessions : \A v \in CwdReads(sessions[sid]) : ValidCwd(v)

\* two writers of one session have both finished and left the pointer of one
\* assignment with the length of the other
C8_Witness ==
    /\ \A g \in Goroutines : thr[g] = Idle
    /\ \E sid \in DOMAIN sessions :
         /\ sessions[sid].len # Len(sessions[sid].ptr)
         /\ \E v \in CwdReads(sessions[sid]) : ~ValidCwd(v)

\* C10: a step changes the cwd of no session but the one of the request that
\* takes it, and only when that request is a cd or carries the path of
\* /api/config; a request with any other command changes no cwd at all
C10_OwnSessionOnly ==
    [][\A sid \in DOMAIN sessions :
          sessions'[sid] # sessions[sid] =>
              \E g \in Goroutines :
                  /\ thr[g].pc = "store"
                  /\ thr'[g] # thr[g]
                  /\ thr[g].sid = sid
                  /\ thr[g].req \in {"cd", "config"}]_vars

\* one session has been moved to /d/s while the other is still at "/"
C10_Witness ==
    /\ Cardinality(DOMAIN sessions) = 2
    /\ \A g \in Goroutines : thr[g] = Idle
    /\ \E a, b \in DOMAIN sessions :
         /\ sessions[a] = StringWords("/d/s")
         /\ sessions[b] = StringWords("/")

-----------------------------------------------------------------------------
(* Specification of the session map: requests with every kind of cookie,    *)
(* served one at a time by a server that creates up to SessCap sessions;    *)
(* pout keeps what getSession did for the last request                      *)

SessCap == 3         \* sessions the server creates in this specification

SessInputs == {"pwd", "cd", "cd d", "cd /d/s", "cd zz"}

SessInit ==
    /\ fs = ConcTree
    /\ sessions = <<>>
    /\ resp = NoResp
    /\ thr = <<>>
    /\ pin = [v |-> ""]
    /\ pout = NoCall

\* POST /api/exec: getSession, then the command
SessionRequest ==
    /\ \E cookie \in Cookies(SessCap), input \in SessInputs :
         \E sid \in SessionIds(cookie, SessCap) :
           \E cwd \in CwdReads(WithSession(sid)[sid]) :
             \E r \in {handleExec(cwd, input)} :
                 /\ sessions' = Commit(WithSession(sid), sid, r)
                 /\ pout' = [op |-> "getSession", cookie |-> cookie, sid |-> sid,
                             setcookie |-> SetCookie(cookie, sid), cwd |-> cwd,
                             input |-> input]
    /\ UNCHANGED <<fs, resp, thr, pin>>

SessNext == SessionRequest

SpecSess == SessInit /\ [][SessNext]_vars

\* s is 32 hex digits
IsSid(s) == Len(s) = 32 /\ \A i \in 1..32 : Contains(HexDigits, Ch(s, i))

\* what getSession does in a step for a request with cookie c that ends up
\* with session id: a look-up when c is a key, otherwise a creation
SessionStep(c, id) ==
    /\ c \in DOMAIN sessions =>
         /\ id = c
         /\ pout'.setcookie = ""
         /\ pout'.cwd \in CwdReads(sessions[c])
         /\ DOMAIN sessions' = DOMAIN sessions
    /\ c \notin DOMAIN sessions =>
         /\ id \notin DOMAIN sessions
         /\ id # c
         /\ IsSid(id)
         /\ pout'.setcookie = id
         /\ pout'.cwd = "/"
         /\ DOMAIN sessions' = DOMAIN sessions \cup {id}
    /\ \A x \in DOMAIN sessions : x \in DOMAIN sessions' /\ (x # id => sessions'[x] = sessions[x])

\* C11: getSession returns the stored session when the sid cookie is a key of
\* the session map; otherwise it creates a session with cwd "/" under a fresh
\* id of 32 hex digits, never under the value the client sent, and sets that
\* id as the cookie; no session is ever removed from the map or replaced
C11_GetSession ==
    [][pout'.op = "getSession" => SessionStep(pout'.cookie, pout'.sid)]_vars

\* a request with a cookie the server never issued got a session of its own
\* while the sessions created before it are still in the map, one of them
\* away from "/"
C11_Witness ==
    /\ pout.op = "getSession"
    /\ pout.cookie = "forged"
    /\ pout.setcookie = pout.sid
    /\ pout.sid \in DOMAIN sessions
    /\ Cardinality(DOMAIN sessions) = SessCap
    /\ \E x \in DOMAIN sessions : x # pout.sid /\ sessions[x] = StringWords("/d/s")

-----------------------------------------------------------------------------
(* Specification of the race on one session: two goroutines serve cd        *)
(* requests of a server that creates RaceSessions sessions; a goroutine     *)
(* keeps the line it serves and the cwd it read until its handler returns   *)

RaceSessions == 1    \* sessions the server creates in this specification

RaceCd == {"cd", "cd /d/s", "cd .."}

\* POST /api/exec with a cd, up to the assignment to sess.cwd
RaceBegin(g) ==
    /\ thr[g] = Idle
    /\ \E cookie \in Cookies(RaceSessions), input \in RaceCd :
         \E sid \in SessionIds(cookie, RaceSessions) :
           \E cwd \in CwdReads(WithSession(sid)[sid]) :
             \E r \in {handleExec(cwd, input)} :
                 /\ sessions' = WithSession(sid)
                 /\ thr' = [thr EXCEPT
                              ![g] = IF r.setcwd
                                     THEN Storing(sid, "cd", r.newcwd)
                                              @@ [input |-> input, read |-> cwd]
                                     ELSE Idle]
    /\ UNCHANGED <<fs, resp, pin, pout>>

RaceNext ==
    \E g \in Goroutines :
        \/ RaceBegin(g)
        \/ StorePtr(g)
        \/ StoreLen(g)
        \/ Respond(g)

SpecRace == ConcInit /\ [][RaceNext]_vars

\* the cwd a cd request assigns: its operand joined to the cwd it read
Assigned(t) == joinVirtual(t.read, cdTarget(Tail(parseArgs(t.input))))

\* the cwd of a session at c after the command line input, served alone
After(c, input) ==
    IF handleExec(c, input).setcwd THEN handleExec(c, input).newcwd ELSE c

\* two goroutines that have both assigned the cwd of the same session and
\* not yet returned
BothStored(g, h) ==
    /\ g # h
    /\ thr[g].pc = "reply"
    /\ thr[h].pc = "reply"
    /\ thr[g].sid = thr[h].sid

\* C12: sess.cwd is read and written with no lock of the session, so two
\* requests of one session race on cd: once both have assigned, the pointer
\* and the length of the cwd are each what one of the two assigned from the
\* cwd it had read, whether or not that is what a serial order leaves
C12_RacingAssignments ==
    \A g, h \in Goroutines :
        BothStored(g, h) =>
            /\ sessions[thr[g].sid].ptr \in {Assigned(thr[g]), Assigned(thr[h])}
            /\ sessions[thr[g].sid].len \in {Len(Assigned(thr[g])), Len(Assigned(thr[h]))}

\* cd and cd .. of one session both read /d/s; both have assigned and the
\* session is left at /d, where neither order of the two leaves it
C12_Witness ==
    \E g, h \in Goroutines :
        /\ BothStored(g, h)
        /\ thr[g].read = "/d/s"
        /\ thr[h].read = "/d/s"
        /\ thr[g].input = "cd"
        /\ thr[h].input = "cd .."
        /\ sessions[thr[g].sid] = StringWords("/d")
        /\ "/d" \notin {After(After("/d/s", thr[g].input), thr[h].input),
                        After(After("/d/s", thr[h].input), thr[g].input)}

\* the names handleExec has a case for
CommandTable ==
    {"pwd", "help", "ls", "dir", "cd", "cat", "get", "rget", "wget", "download", "tree",
     "find", "url", "share", "grep", "sum", "checksum", "stats"}

\* C13: for every input line handleExec returns a result as ordinary text: a
\* blank line gives empty output, a first token outside the command table
\* gives "sh: <name>: command not found", and no line, a line of nothing but
\* quote characters included, makes the handler fail or panic
C13_AlwaysTextResult ==
    (resp # NoResp /\ resp.ep = "exec") =>
        /\ resp.status = "ok"
        /\ TrimSpace(resp.req.input) = "" => resp.output = ""
        /\ (Argv(resp) # <<>> /\ Cmd(resp) \notin CommandTable)
              => resp.output = "sh: " \o Cmd(resp) \o ": command not found"

\* the line of two single quotes has no token, and the handler panics on it
C13_Witness ==
    /\ resp # NoResp
    /\ resp.ep = "exec"
    /\ resp.req.input = "''"
    /\ Argv(resp) = <<>>
    /\ resp.status = "panic"

-----------------------------------------------------------------------------
(* Specification of the tokenizer: the input is any line over ArgChars up   *)
(* to ArgLen, or one of the lines of the tests; the one step tokenizes it   *)

ArgLen == 5          \* the longest line over ArgChars

ArgChars == {"a", " ", "\t", "\n", "'", "\"", "\\"}

ExampleLine == "ls -a \"my file.txt\""

TestLine == "cmd \"a b\" 'c d' e f"

ArgsInit ==
    /\ pin \in {[v |-> v] : v \in StringsUpTo(ArgChars, ArgLen) \cup {ExampleLine, TestLine}}
    /\ pout = NoCall
    /\ fs = Tree(<<>>, <<>>, <<>>, FALSE)
    /\ sessions = <<>>
    /\ resp = NoResp
    /\ thr = <<>>

ParseLine ==
    /\ pout = NoCall
    /\ pout' = [op |-> "parseArgs", r |-> parseArgs(pin.v)]
    /\ UNCHANGED <<pin, fs, sessions, resp, thr>>

ArgsNext == ParseLine

SpecArgs == ArgsInit /\ [][ArgsNext]_vars

\* where a reader of the line stands after each character: inside which
\* quotes (m), and whether a backslash has just made the next character
\* literal (e)
Reading(line) ==
    LET n == Len(line)
        at[i \in 0..n] ==
            IF i = 0 THEN [m |-> "", e |-> FALSE]
            ELSE LET b == at[i - 1]
                     c == Ch(line, i)
                 IN  IF b.e THEN [m |-> b.m, e |-> FALSE]
                     ELSE IF b.m = "'" THEN [m |-> IF c = "'" THEN "" ELSE "'", e |-> FALSE]
                     ELSE IF b.m = "\""
                     THEN [m |-> IF c = "\"" THEN "" ELSE "\"", e |-> c = "\\" /\ i < n]
                     ELSE [m |-> IF c \in {"'", "\""} THEN c ELSE "", e |-> FALSE]
    IN  at

\* what the character at i is to the tokens: a separator, a quote or an
\* escaping backslash (both dropped), or a character of a token
Role(line, i) ==
    LET b == Reading(line)[i - 1]
        c == Ch(line, i)
    IN  IF b.e THEN "char"
        ELSE IF b.m = "" /\ c \in {" ", "\t", "\n"} THEN "separator"
        ELSE IF b.m = "" /\ c \in {"'", "\""} THEN "quote"
        ELSE IF b.m # "" /\ c = b.m THEN "quote"
        ELSE IF b.m = "\"" /\ c = "\\" /\ i < Len(line) THEN "escape"
        ELSE "char"

\* the characters of the token that occupies positions i..j
RECURSIVE TokenText(_, _, _)
TokenText(line, i, j) ==
    IF i > j THEN ""
    ELSE (IF Role(line, i) = "char" THEN Ch(line, i) ELSE "") \o TokenText(line, i + 1, j)

\* the positions where a run of characters that are no separators begins
RunStarts(line) ==
    {i \in 1..Len(line) :
        Role(line, i) # "separator" /\ (i = 1 \/ Role(line, i - 1) = "separator")}

\* the last position of the run that begins at i
RunEnd(line, i) ==
    CHOOSE j \in i..Len(line) :
        /\ \A k \in i..j : Role(line, k) # "separator"
        /\ (j = Len(line) \/ Role(line, j + 1) = "separator")

\* the runs that give a token: those with a character in them, and the one
\* that a quote left open at the end of the line closes
TokenStarts(line) ==
    {i \in RunStarts(line) :
        \/ TokenText(line, i, RunEnd(line, i)) # ""
        \/ (RunEnd(line, i) = Len(line) /\ Reading(line)[Len(line)].m # "")}

\* the tokens of a line as the description of the tokenizer gives them
Tokens(line) ==
    [k \in 1..Cardinality(TokenStarts(line)) |->
        LET i == CHOOSE s \in TokenStarts(line) :
                     Cardinality({x \in TokenStarts(line) : x < s}) = k - 1
        IN  TokenText(line, i, RunEnd(line, i))]

\* C14: parseArgs splits a line on runs of unquoted space, tab or newline;
\* what stands between single or between double quotes stays in the token and
\* the quotes are dropped; a backslash makes the next character literal only
\* inside double quotes; a quote left open at the end of the line still gives
\* the token gathered so far; ls -a "my file.txt" gives ls, -a, my file.txt
C14_Tokenizer ==
    pout.op = "parseArgs" =>
        /\ pout.r = Tokens(pin.v)
        /\ pin.v = ExampleLine => pout.r = <<"ls", "-a", "my file.txt">>

\* a backslash in double quotes kept the quote after it in a token that the
\* end of the line closed
C14_Witness ==
    /\ pout.op = "parseArgs"
    /\ pin.v = "a \"\\\""
    /\ pout.r = <<"a", "\"">>

\* C15: for every string p, cleanVirtual(p) begins with '/', has no '.', '..'
\* or empty segment and no trailing slash unless it is "/", is "/" for the
\* empty string, and is its own cleanVirtual
C15_CleanVirtualNormalizes ==
    pout.op = "cleanVirtual" =>
        /\ Normalized(pout.r)
        /\ pout.r # "/" => Ch(pout.r, Len(pout.r)) # "/"
        /\ pin.v = "" => pout.r = "/"
        /\ pout.again = pout.r

\* a relative path with a '.', a '..' and a trailing slash in it
C15_Witness ==
    /\ pout.op = "cleanVirtual"
    /\ pin.v = "./../"
    /\ pout.r = "/"
    /\ pout.again = "/"

\* C16: joinVirtual(base, arg) is the normalized arg when arg begins with '/',
\* the normalized base when arg is empty, otherwise the normalized
\* concatenation of base and arg; '..' segments that would climb above "/"
\* stop there, as in joinVirtual("/a", "..") = "/" and
\* joinVirtual("/", "../..") = "/"; the result is a normalized virtual path
C16_JoinVirtual ==
    pout.op = "joinVirtual" =>
        /\ HasPrefix(pin.v, "/") => pout.r = cleanVirtual(pin.v)
        /\ pin.v = "" => pout.r = cleanVirtual(pout.base)
        /\ (pin.v # "" /\ ~HasPrefix(pin.v, "/"))
              => pout.r = cleanVirtual(pout.base \o "/" \o pin.v)
        /\ (pout.base = "/a" /\ pin.v = "..") => pout.r = "/"
        /\ (pout.base = "/" /\ pin.v = "../..") => pout.r = "/"
        /\ Normalized(pout.r)

\* two '..' joined to the root stay at the root
C16_Witness ==
    /\ pout.op = "joinVirtual"
    /\ pout.base = "/"
    /\ pin.v = "../.."
    /\ pout.r = "/"

-----------------------------------------------------------------------------
(* C17: what find returns                                                   *)

\* every path that names something in the exported tree, seen from the root
NamedPaths ==
    {x \in TreeDirs \cup AllFiles : Beneath(x, RootAbs)}
        \cup (IF fs.link
              THEN {LinkPath} \cup {LinkPath \o SubSeq(x, Len(LinkTarget) + 1, Len(x)) :
                                       x \in {y \in TreeDirs \cup AllFiles : Beneath(y, LinkTarget)}}
              ELSE {})

\* the entries between start and x on the way down, both excluded
Between(start, x) == {q \in NamedPaths : Beneath(q, start) /\ Beneath(x, q)}

\* the entries strictly below start: in it, or in a directory below it
StrictlyBelow(start) ==
    {x \in NamedPaths : Beneath(x, start) /\ \A q \in Between(start, x) : Lstat(q) = "dir"}

\* q is neither ignored nor, unless the pattern begins with a dot, hidden
Eligible(q, pattern) ==
    /\ ~MatchedByRule(q)
    /\ HasPrefix(pathBase(q), ".") => HasPrefix(pattern, ".")

\* the value of option flag in find's arguments, dflt when it is not given
FindOption(a, flag, dflt) ==
    IF \E i \in 1..(Len(a) - 1) : a[i] = flag
    THEN a[(CHOOSE i \in 1..(Len(a) - 1) : a[i] = flag) + 1]
    ELSE dflt

\* the -type test of the claim
KindPasses(type, x) ==
    CASE type = "f" -> Lstat(x) # "dir"
      [] type = "d" -> Lstat(x) = "dir"
      [] OTHER -> TRUE

\* what the claim says find returns from start
FindExpected(start, pattern, type) ==
    {x \in StrictlyBelow(start) :
        /\ Match(pattern, pathBase(x))
        /\ KindPasses(type, x)
        /\ \A q \in Between(start, x) \cup {x} : Eligible(q, pattern)}

\* a find request whose start directory exists
FindRan(r) ==
    /\ r # NoResp
    /\ r.ep = "exec"
    /\ Cmd(r) = "find"
    /\ Stat(StartDir(r)) = "dir"

\* find's answer to r is the one the claim describes
FindExact(r) ==
    IF FindOption(Argv(r), "-type", "") \notin {"", "f", "d"}
    THEN /\ r.entries = <<>>
         /\ Contains(r.output, "invalid type filter")
    ELSE /\ Listed(r) = FindExpected(StartDir(r), FindOption(Argv(r), "-name", "*"),
                                     FindOption(Argv(r), "-type", ""))
         /\ \A i \in 1..Len(r.entries) :
               r.entries[i].name = TrimPrefix(r.entries[i].real, RootAbs)

\* C17: find returns, as virtual paths, exactly the entries strictly below the
\* start directory whose base name matches the -name pattern and whose kind
\* passes -type, among the entries that are not ignored and not hidden (unless
\* the pattern begins with a dot); a -type other than f or d gives an argument
\* error and no results
C17_FindExact == FindRan(resp) => FindExact(resp)

\* with .l* in the rule file of /..e, find / -name .* returns that rule file
C17_Witness ==
    /\ FindRan(resp)
    /\ resp.req.input = "find / -name .*"
    /\ fs = Tree(<<>>, <<>>, <<".l*">>, FALSE)
    /\ "/r/..e/.lsgetignore" \in Listed(resp)
    /\ MatchedByRule("/r/..e/.lsgetignore")

-----------------------------------------------------------------------------
(* C18: cat                                                                 *)

\* a cat request with an operand
CatRan(r) == r # NoResp /\ r.ep = "exec" /\ Cmd(r) = "cat" /\ Len(Argv(r)) > 1

\* the path cat's operand names
CatFile(r) == Place(r.cwd, Argv(r)[2])

\* some byte of the file is NUL
HasNul(p) == \E i \in 1..Len(FileLines(Phys(p))) : Contains(FileLines(Phys(p))[i], NUL)

\* the response carries no content and its text is of the message msg
Refuses(r, msg) == r.content = {} /\ r.entries = <<>> /\ Contains(r.output, msg)

\* the cases of cat, with the files the binary-file case speaks of given by
\* binary
CatCases(r, binary(_)) ==
    /\ r.content # {} =>
          /\ r.content = {CatFile(r)}
          /\ Stat(CatFile(r)) = "file"
          /\ FileSize(CatFile(r)) <= CatMax
          /\ ~HasNul(CatFile(r))
    /\ (Stat(CatFile(r)) = "file" /\ FileSize(CatFile(r)) > CatMax) =>
          /\ Refuses(r, "too large")
          /\ Contains(r.output, ToString(FileSize(CatFile(r))))
          /\ Contains(r.output, ToString(CatMax))
    /\ (Stat(CatFile(r)) = "file" /\ binary(CatFile(r))) =>
          Refuses(r, "cat: binary file")
    /\ Stat(CatFile(r)) = "dir" => Refuses(r, "is a directory")

\* C18: cat gives content only for a non-directory within the cap whose
\* bytes are text; a file over the cap gets a message with its size and the
\* cap, a file with a NUL byte the binary-file message, a directory the
\* is-a-directory message, and none of the three gets content
C18_CatAsStated == CatRan(resp) => CatCases(resp, HasNul)

\* cat of /..e/x, a file of 20 bytes in the root, answers permission denied
C18_Witness ==
    /\ CatRan(resp)
    /\ resp.req.input = "cat /..e/x"
    /\ Stat(CatFile(resp)) = "file"
    /\ Beneath(CatFile(resp), RootAbs)
    /\ FileSize(CatFile(resp)) = 20
    /\ resp.output = "cat: permission denied"

-----------------------------------------------------------------------------
(* C19: the URL that get answers with                                       *)

\* a get request with an operand
GetRan(r) ==
    /\ r # NoResp
    /\ r.ep = "exec"
    /\ Cmd(r) \in {"get", "rget", "wget", "download"}
    /\ Len(Argv(r)) > 1

\* the operand has glob metacharacters or is "."
GetByPattern(r) == ContainsAny(Argv(r)[2], "*?[") \/ Argv(r)[2] = "."

\* the directory whose entries the pattern is matched against
GetPatternDir(r) ==
    IF Argv(r)[2] # "." /\ Contains(Argv(r)[2], "/")
    THEN Place(r.cwd, pathDir(Argv(r)[2]))
    ELSE Place(r.cwd, "")

\* the virtual path of a real path below the root
VirtualOf(real) == IF real = RootAbs THEN "/" ELSE TrimPrefix(real, RootAbs)

\* the answer to a pattern (none of the model's patterns and directories has
\* a character that the URL escapes)
GetPatternCase(r) ==
    (GetByPattern(r) /\ Stat(GetPatternDir(r)) = "dir") =>
        CASE Len(r.entries) = 0 ->
               r.download = "" /\ Contains(r.output, "no matching files found")
          [] Len(r.entries) = 1 ->
               r.download = "/api/download?path=" \o VirtualOf(r.entries[1].real)
          [] OTHER ->
               r.download = "/api/download?pattern=" \o Argv(r)[2] \o "&cwd=" \o r.cwd

\* the answer to a literal file name
GetFileCase(r) ==
    (~GetByPattern(r) /\ Stat(Place(r.cwd, Argv(r)[2])) = "file") =>
        r.download = "/api/download?path=" \o joinVirtual(r.cwd, Argv(r)[2])

\* the answer to a literal directory name is the dir= URL
GetDirCase(r) ==
    (~GetByPattern(r) /\ Stat(Place(r.cwd, Argv(r)[2])) = "dir") =>
        r.download = "/api/download?dir=" \o joinVirtual(r.cwd, Argv(r)[2])

\* C19: for a pattern or ".", zero collected files give the
\* no-matching-files error and no URL, one file its path= URL, more the
\* pattern= URL with the cwd; a literal directory name gives a dir= URL and a
\* literal file name a path= URL
C19_GetUrls ==
    GetRan(resp) => GetPatternCase(resp) /\ GetFileCase(resp) /\ GetDirCase(resp)

\* in /d/s, where c is the one file, get . answers with a path= URL made of
\* the real path of c
C19_Witness ==
    /\ GetRan(resp)
    /\ resp.req.input = "get ."
    /\ resp.cwd = "/d/s"
    /\ Listed(resp) = {"/r/d/s/c"}
    /\ VirtualOf("/r/d/s/c") = "/d/s/c"
    /\ resp.download = "/api/download?path=/r/d/s/c"

-----------------------------------------------------------------------------
(* C20: grep and the file over its size cap                                 *)

\* a grep request
GrepRan(r) == r # NoResp /\ r.ep = "exec" /\ Cmd(r) = "grep"

\* the arguments of grep that are not flags: the pattern, then the operands
GrepWords(r) == SelectSeq(Tail(Argv(r)), LAMBDA x : ~HasPrefix(x, "-"))

\* grep -r
GrepRecursive(r) ==
    \E i \in 2..Len(Argv(r)) : HasPrefix(Argv(r)[i], "-") /\ Contains(Argv(r)[i], "r")

\* the operands of grep: with -r and none given, the current directory
GrepTargets(r) ==
    IF Len(GrepWords(r)) > 1 THEN SeqToSet(Tail(GrepWords(r)))
    ELSE IF Len(GrepWords(r)) = 1 /\ GrepRecursive(r) THEN {"."}
    ELSE {}

\* the files over the grep cap
OverGrepCap == {f \in TreeFiles : Beneath(f, RootAbs) /\ FileSize(f) > GrepMax}

\* operand op of r names the file f
NamesFile(r, op, f) == Stat(Place(r.cwd, op)) = "file" /\ Phys(Place(r.cwd, op)) = f

\* grep -r from operand op of r comes to the file f: f lies below the
\* directory op names, and neither f nor a directory on the way is hidden or
\* ignored
ReachesFile(r, op, f) ==
    /\ GrepRecursive(r)
    /\ Stat(Place(r.cwd, op)) = "dir"
    /\ f \in StrictlyBelow(Place(r.cwd, op))
    /\ \A q \in Between(Place(r.cwd, op), f) \cup {f} : Plain(q)

\* the response reports a file as too large
ReportsTooLarge(r) == \E i \in 1..Len(r.entries) : Contains(r.entries[i].name, "too large")

\* no line of the response is a match taken from a file over the cap
NoLineOverCap(r) == \A i \in 1..Len(r.entries) : Phys(r.entries[i].real) \notin OverGrepCap

\* C20: grep emits no match line taken from a file over the 10 MB cap, and
\* reports such a file as too large both when an operand names it and when
\* grep -r reaches it
C20_GrepCap ==
    GrepRan(resp) =>
        /\ NoLineOverCap(resp)
        /\ \A op \in GrepTargets(resp) : \A f \in OverGrepCap :
              (NamesFile(resp, op, f) \/ ReachesFile(resp, op, f)) => ReportsTooLarge(resp)

\* grep -r w from the root of the plain tree comes to /d/s/c, which is over
\* the cap, and its answer is the two matches of a.t and b.t and nothing else
C20_Witness ==
    /\ GrepRan(resp)
    /\ resp.req.input = "grep -r w"
    /\ resp.cwd = "/"
    /\ fs = Tree(<<>>, <<>>, <<>>, FALSE)
    /\ ReachesFile(resp, ".", BigFile)
    /\ Listed(resp) = {"/r/a.t", "/r/d/b.t"}
    /\ ~ReportsTooLarge(resp)

-----------------------------------------------------------------------------
(* C21: grep with several operands                                          *)

\* the operands of grep, in the order given
GrepFiles(r) == Tail(GrepWords(r))

\* the pattern of grep
GrepPattern(r) == GrepWords(r)[1]

\* the sandbox rejects operand op
Rejected(r, op) == realFromVirtual(joinVirtual(r.cwd, op)).err

\* operand op fails: rejected, missing, or a directory without -r
OperandFails(r, op) ==
    \/ Rejected(r, op)
    \/ Stat(Place(r.cwd, op)) = "none"
    \/ Stat(Place(r.cwd, op)) = "dir" /\ ~GrepRecursive(r)

\* the lines of the response that are errors about operand op
ErrorLines(r, op) ==
    {i \in 1..Len(r.entries) :
        r.entries[i].real = "" /\ HasPrefix(r.entries[i].name, "grep: " \o op \o ": ")}

\* the lines of the response that are matches taken from operand op
MatchLines(r, op) ==
    {i \in 1..Len(r.entries) :
        r.entries[i].real # "" /\ r.entries[i].real = Place(r.cwd, op)}

\* the lines of file f that hold the pattern (as it is written: without -i)
Holding(f, pattern) ==
    {i \in 1..Len(FileLines(Phys(f))) : Contains(FileLines(Phys(f))[i], pattern)}

\* the operand that line i of the response is about
OperandOf(r, i) ==
    CHOOSE k \in 1..Len(GrepFiles(r)) :
        i \in ErrorLines(r, GrepFiles(r)[k]) \cup MatchLines(r, GrepFiles(r)[k])

\* a grep request with several operands, each given once, and no -i
GrepSeveral(r) ==
    /\ GrepRan(r)
    /\ Len(GrepWords(r)) > 2
    /\ Cardinality(SeqToSet(GrepFiles(r))) = Len(GrepFiles(r))
    /\ \A i \in 2..Len(Argv(r)) : ~(HasPrefix(Argv(r)[i], "-") /\ Contains(Argv(r)[i], "i"))

-----------------------------------------------------------------------------
(* C22: what the recursive archive collection keeps                         *)

\* a response made from collectFilesFromDirectory: get . and get DIR, and the
\* archive endpoint for a directory
Collects(r) ==
    /\ r # NoResp
    /\ ListsSubtree(r)
    /\ Cmd(r) # "find"
    /\ Stat(StartDir(r)) = "dir"

\* the components of path f below the directory start, f's own name included
ComponentsBelow(start, f) == Between(start, f) \cup {f}

\* the archive name the claim gives file f collected from start
ArchiveName(start, f) == pathBase(start) \o TrimPrefix(f, start)

\* C22: no file that the recursive collection returns has, at any component
\* below the start directory, a name that begins with a dot or that a rule
\* matches; and its archive name is the base name of the start directory
\* followed by its path relative to the start directory
C22_CollectSkips ==
    Collects(resp) =>
        \A i \in 1..Len(resp.entries) :
            /\ \A q \in ComponentsBelow(StartDir(resp), resp.entries[i].real) : Plain(q)
            /\ resp.entries[i].rel = ArchiveName(StartDir(resp), resp.entries[i].real)

\* get . at the root of the plain tree collects /.h/y, a file of the hidden
\* directory .h
C22_Witness ==
    /\ Collects(resp)
    /\ resp.req.input = "get ."
    /\ resp.cwd = "/"
    /\ fs = Tree(<<>>, <<>>, <<>>, FALSE)
    /\ "/r/.h/y" \in Listed(resp)
    /\ "/r/.h" \in ComponentsBelow(StartDir(resp), "/r/.h/y")

-----------------------------------------------------------------------------
(* C23: shouldIgnore, called on every entry of the tree                     *)

\* the trees of the rule function: those of the server, and one whose root
\* rule file names everything in d by a path pattern
IgnoreTrees == Trees \cup {Tree(<<"d/*">>, <<>>, <<>>, FALSE)}

IgnoreInit ==
    /\ fs \in IgnoreTrees
    /\ sessions = <<>>
    /\ resp = NoResp
    /\ thr = <<>>
    /\ pin = [v |-> ""]
    /\ pout = NoCall

\* shouldIgnore of an entry below the root, with its base name
ShouldIgnoreCall ==
    /\ pout = NoCall
    /\ \E f \in NamedPaths :
         pout' = [op |-> "shouldIgnore", real |-> f, r |-> shouldIgnore(f, pathBase(f))]
    /\ UNCHANGED <<pin, fs, sessions, resp, thr>>

IgnoreNext == ShouldIgnoreCall

SpecIgnore == IgnoreInit /\ [][IgnoreNext]_vars

\* the patterns of the rule file of directory d
RulePatterns(d) ==
    {TrimSpace(fs.rules[d][i]) : i \in 1..Len(fs.rules[d])} \ {""}

\* pattern pat of the rule file of d has the form X/* and f is nested under d/X
NestedUnder(f, d, pat) ==
    /\ Len(pat) > 2
    /\ SubSeq(pat, Len(pat) - 1, Len(pat)) = "/*"
    /\ ~ContainsAny(SubSeq(pat, 1, Len(pat) - 2), "*?[#")
    /\ Beneath(f, pathJoin(d, SubSeq(pat, 1, Len(pat) - 2)))

\* C23: shouldIgnore is true exactly when the rule file of some directory from
\* the candidate's own up to the root has a pattern that matches the
\* candidate's name or its path relative to that directory; so a pattern X/*
\* of a directory hides every file nested under its X, at any depth
C23_ShouldIgnoreExact ==
    pout.op = "shouldIgnore" =>
        /\ pout.r <=> MatchedByRule(pout.real)
        /\ \A d \in RuleDirs : \A pat \in RulePatterns(d) :
              NestedUnder(pout.real, d, pat) => pout.r

\* with x in the rule file of /..e, shouldIgnore of /..e/x is false
C23_Witness ==
    /\ pout.op = "shouldIgnore"
    /\ pout.real = "/r/..e/x"
    /\ fs = Tree(<<>>, <<>>, <<"x">>, FALSE)
    /\ MatchedByRule("/r/..e/x")
    /\ ~pout.r

-----------------------------------------------------------------------------
(* C24: collectFilesForDownload, called on its own                          *)

\* the trees without the symlink
CollectTrees == {t \in Trees : ~t.link}

\* the current directories and the patterns of the calls
CollectCwds == {"/", "/d", "/d/s", "/.h"}

CollectPatterns ==
    {".", "*", "*.t", "?.t", "d/*", "d/*.t", "s/*", "zz/*", "[ab].t",
     "a.t", "b.t", "d", "s", "/d/s", "zz", "../a.t", "/..e", "/"}

CollectInit ==
    /\ fs \in CollectTrees
    /\ sessions = <<>>
    /\ resp = NoResp
    /\ thr = <<>>
    /\ pin = [v |-> ""]
    /\ pout = NoCall

CollectCall ==
    /\ pout = NoCall
    /\ \E cwd \in CollectCwds, pattern \in CollectPatterns :
         pout' = [op |-> "collect", cwd |-> cwd, pattern |-> pattern,
                  r |-> collectFilesForDownload(cwd, pattern)]
    /\ UNCHANGED <<pin, fs, sessions, resp, thr>>

CollectNext == CollectCall

SpecCollect == CollectInit /\ [][CollectNext]_vars

\* the real paths of the items of a collection
ItemPaths(c) == {c.files[i].real : i \in 1..Len(c.files)}

\* the files below directory dir, at any depth
FilesBelow(dir) == {f \in StrictlyBelow(dir) : Lstat(f) # "dir"}

\* collection c is recursive from dir: its items are files below dir, and
\* every file below dir is among them when neither it nor a directory on the
\* way is hidden or ignored
RecursiveFrom(c, dir) ==
    /\ c.err = ""
    /\ ItemPaths(c) \subseteq FilesBelow(dir)
    /\ \A f \in FilesBelow(dir) :
          (\A q \in ComponentsBelow(dir, f) : Plain(q)) => f \in ItemPaths(c)

\* collection c is one level of dir for the file pattern pat: its items are
\* the entries of dir that are not directories, match pat and are not
\* ignored, each named by its bare file name
OneLevelOf(c, dir, pat) ==
    /\ c.err = ""
    /\ \A i \in 1..Len(c.files) :
          /\ pathDir(c.files[i].real) = dir
          /\ Lstat(c.files[i].real) # "dir"
          /\ Match(pat, pathBase(c.files[i].real))
          /\ c.files[i].rel = pathBase(c.files[i].real)
    /\ \A f \in FilesBelow(dir) :
          (pathDir(f) = dir /\ Match(pat, pathBase(f)) /\ ~MatchedByRule(f))
              => f \in ItemPaths(c)

\* collection c is the literal path real
LiteralOf(c, cwd, pattern) ==
    CASE Rejected([cwd |-> cwd], pattern) \/ Stat(Place(cwd, pattern)) = "none" ->
           c.err # "" /\ c.files = <<>>
      [] Stat(Place(cwd, pattern)) = "dir" ->
           RecursiveFrom(c, Place(cwd, pattern))
      [] OTHER ->
           c.err = "" /\ Len(c.files) = 1 /\ c.files[1].real = Place(cwd, pattern)

\* the directory a glob pattern is matched in
GlobDirOf(cwd, pattern) ==
    IF Contains(pattern, "/") THEN Place(cwd, pathDir(pattern)) ELSE Place(cwd, "")

-----------------------------------------------------------------------------
(* C25: sendZipArchive, called on a list of items                           *)

\* the items of the lists: two files, a path that does not exist, a directory
ZipItems ==
    {FileItem("/a.t", "/r/a.t", "a.t"), FileItem("/zz", "/r/zz", "zz"),
     FileItem("/d/b.t", "/r/d/b.t", "d/b.t"), FileItem("/d", "/r/d", "d")}

\* the longest list
ZipLen == 3

ZipLists == UNION {[1..n -> ZipItems] : n \in 0..ZipLen}

ZipInit ==
    /\ pin \in {[v |-> l] : l \in ZipLists}
    /\ pout = NoCall
    /\ fs = Tree(<<>>, <<>>, <<>>, FALSE)
    /\ sessions = <<>>
    /\ resp = NoResp
    /\ thr = <<>>

ZipCall ==
    /\ pout = NoCall
    /\ pout' = [op |-> "zip", r |-> sendZipArchive(pin.v, {})]
    /\ UNCHANGED <<pin, fs, sessions, resp, thr>>

ZipNext == ZipCall

SpecZip == ZipInit /\ [][ZipNext]_vars

\* item i of list l can be opened
Opens(l, i) == Stat(l[i].real) # "none"

\* the position in l of the item that the k-th entry is written for
ItemOf(l, k) ==
    CHOOSE i \in 1..Len(l) :
        Opens(l, i) /\ Cardinality({j \in 1..i : Opens(l, j)}) = k

-----------------------------------------------------------------------------
(* C26: find and grep -r over a tree with unreadable entries                *)

\* the sets of entries whose mode denies reading
WalkLocks ==
    {{}, {"/r/d"}, {"/r/d/s"}, {"/r/a.t"}, {"/r/d/b.t"}, {"/r/d", "/r/a.t"}, {"/r"},
     {"/r/..e"}}

WalkTrees ==
    {[t EXCEPT !.locked = l] :
        t \in {Tree(<<>>, <<>>, <<>>, FALSE), Tree(<<>>, <<"b.t">>, <<>>, FALSE)},
        l \in WalkLocks}

WalkCwds == {"/", "/d"}

WalkFinds == {"find", "find -name *.t", "find -type d", "find /d", "find -name c", "find zz",
     "find / -name .*"}

WalkGreps == {"grep -r w", "grep -r w d", "grep -rn w /d/s", "grep -r w d /a.t", "grep w /a.t"}

WalkInit ==
    /\ fs \in WalkTrees
    /\ sessions = [s \in {} |-> 0]
    /\ resp = NoResp
    /\ thr = <<>>
    /\ pin = NoCall
    /\ pout = NoCall

\* find, served for a session whose directory is cwd
WalkFind ==
    /\ pout = NoCall
    /\ \E cwd \in WalkCwds, input \in WalkFinds :
         pout' = Tag(handleExec(cwd, input), "exec", [input |-> input], "", cwd, "")
    /\ UNCHANGED <<pin, fs, sessions, resp, thr>>

\* grep, served for a session whose directory is cwd
WalkGrep ==
    /\ pout = NoCall
    /\ \E cwd \in WalkCwds, input \in WalkGreps :
         pout' = Tag(handleExec(cwd, input), "exec", [input |-> input], "", cwd, "")
    /\ UNCHANGED <<pin, fs, sessions, resp, thr>>

WalkNext == WalkFind \/ WalkGrep

SpecWalk == WalkInit /\ [][WalkNext]_vars

\* the number of leading segments two paths share
SharedSegs(x, y) ==
    CHOOSE k \in 0..Len(Split(x)) :
        /\ k <= Len(Split(y))
        /\ SubSeq(Split(x), 1, k) = SubSeq(Split(y), 1, k)
        /\ (k = Len(Split(x)) \/ k = Len(Split(y)) \/ Split(x)[k + 1] # Split(y)[k + 1])

\* x comes before y in a walk that lists each directory by name and descends
\* into a directory right after naming it
WalkBefore(x, y) ==
    IF SharedSegs(x, y) = Len(Split(y)) THEN FALSE
    ELSE IF SharedSegs(x, y) = Len(Split(x)) THEN TRUE
    ELSE StrLess(Split(x)[SharedSegs(x, y) + 1], Split(y)[SharedSegs(x, y) + 1])

\* the result lines of r that are not error lines, by the entry each is about
WalkLines(r) == SelectSeq(r.entries, LAMBDA e : e.real # "")

\* the lines of r follow the order of the walk
InWalkOrder(r) ==
    \A i, j \in 1..Len(WalkLines(r)) :
        i < j => ~WalkBefore(WalkLines(r)[j].real, WalkLines(r)[i].real)

\* x lies in the readable remainder below start: no directory on the way
\* down to it denies reading
Remains(start, x) == \A q \in Between(start, x) : ~Unreadable(q)

\* the start target of the walk cannot be resolved or listed
StartFails(start) == Stat(start) = "none" \/ Unreadable(start)

\* the files whose matching lines grep -r from the directory start is to give
GrepReadable(start) ==
    {f \in StrictlyBelow(start) :
        /\ Lstat(f) = "file"
        /\ \A q \in Between(start, f) \cup {f} : Plain(q)
        /\ Remains(start, f)
        /\ ~Unreadable(f)
        /\ FileSize(f) <= GrepMax
        /\ looksText(FileLines(f))}

\* the files grep is to give lines of, over all its operands
GrepExpected(r) ==
    UNION {IF Stat(Place(r.cwd, op)) = "dir" /\ GrepRecursive(r) /\ ~Unreadable(Place(r.cwd, op))
           THEN GrepReadable(Place(r.cwd, op))
           ELSE IF Stat(Place(r.cwd, op)) = "file" /\ ~Unreadable(Place(r.cwd, op))
           THEN {Place(r.cwd, op)}
           ELSE {} : op \in GrepTargets(r)}

\* find over a tree with unreadable entries
FindSkips(r) ==
    IF StartFails(StartDir(r))
    THEN /\ r.entries = <<>>
         /\ HasPrefix(r.output, "find: ")
         /\ r.output # "find: no matches found"
    ELSE /\ Listed(r) = {x \in FindExpected(StartDir(r), FindOption(Argv(r), "-name", "*"),
                                            FindOption(Argv(r), "-type", "")) :
                            Remains(StartDir(r), x)}
         /\ InWalkOrder(r)
         /\ Len(r.entries) = Cardinality(Listed(r))
         /\ r.entries = <<>> => r.output = "find: no matches found"

\* grep over a tree with unreadable entries
GrepSkips(r) ==
    /\ Listed(r) \ {""} = GrepExpected(r)
    /\ Cardinality(GrepTargets(r)) = 1 => InWalkOrder(r)
    /\ (\E i \in 1..Len(r.entries) : r.entries[i].real = "")
          <=> \E op \in GrepTargets(r) : StartFails(Place(r.cwd, op))

\* C26: in find and grep -r an unreadable subdirectory or file is skipped and
\* the walk continues: the results are the matches of the readable remainder
\* in the order of the walk, and only a start target that cannot be resolved
\* or listed gives an error
C26_WalkSkips ==
    /\ (pout # NoCall /\ Cmd(pout) = "find") => FindSkips(pout)
    /\ (pout # NoCall /\ Cmd(pout) = "grep") => GrepSkips(pout)

\* with /..e unreadable, find / -name .* names /..e and then /.h, which
\* comes after it
C26_Witness ==
    /\ pout # NoCall
    /\ pout.req.input = "find / -name .*"
    /\ fs = [Tree(<<>>, <<>>, <<>>, FALSE) EXCEPT !.locked = {"/r/..e"}]
    /\ Len(pout.entries) = 2
    /\ pout.entries[1].real = "/r/..e"
    /\ pout.entries[2].real = "/r/.h"

-----------------------------------------------------------------------------
(* C27: what tree renders                                                   *)

\* the arguments of r that are flags, and those that are not
FlagsOf(r) == SelectSeq(Tail(Argv(r)), LAMBDA x : HasPrefix(x, "-"))

OperandsOf(r) == SelectSeq(Tail(Argv(r)), LAMBDA x : ~HasPrefix(x, "-"))

\* the directory tree is asked to render
TreeTarget(r) ==
    IF OperandsOf(r) = <<>> THEN Place(r.cwd, "")
    ELSE Place(r.cwd, OperandsOf(r)[Len(OperandsOf(r))])

\* a tree request that renders a directory
TreeRan(r) ==
    /\ r # NoResp
    /\ r.ep = "exec"
    /\ Cmd(r) = "tree"
    /\ ~realFromVirtual(TrimPrefix(TreeTarget(r), RootAbs)).err
    /\ Stat(TreeTarget(r)) = "dir"

\* the flags -L<N> of r, N one digit
DepthFlags(r) ==
    {i \in 1..Len(FlagsOf(r)) :
        /\ HasPrefix(FlagsOf(r)[i], "-L")
        /\ Len(FlagsOf(r)[i]) = 3
        /\ Contains(Digits, Ch(FlagsOf(r)[i], 3))}

\* the N of the -L<N> of r
DepthOf(r) == IndexOf(Digits, Ch(FlagsOf(r)[CHOOSE i \in DepthFlags(r) : TRUE], 3)) - 1

\* the number of levels x lies below start
LevelsBelow(start, x) == Cardinality(Between(start, x)) + 1

\* a flag of r asks for hidden entries
ShowsHidden(r) == \E i \in 1..Len(FlagsOf(r)) : Contains(FlagsOf(r)[i], "a")

\* the entries tree comes to from start at any depth
TreeReach(r, start) ==
    {x \in StrictlyBelow(start) :
        \A q \in Between(start, x) \cup {x} : ShowsHidden(r) \/ ~HasPrefix(pathBase(q), ".")}

\* within each directory, directories come before files and each group is
\* in name order
GroupedByKind(r) ==
    \A i, j \in 1..Len(r.entries) :
        (i < j /\ pathDir(r.entries[i].real) = pathDir(r.entries[j].real)) =>
            /\ ~(~r.entries[i].dir /\ r.entries[j].dir)
            /\ r.entries[i].dir = r.entries[j].dir =>
                  StrLess(r.entries[i].name, r.entries[j].name)

\* the depth of what is rendered: bounded by -L<N>, unbounded without it
DepthKept(r) ==
    IF DepthFlags(r) = {}
    THEN Listed(r) = TreeReach(r, TreeTarget(r))
    ELSE Listed(r) = {x \in TreeReach(r, TreeTarget(r)) :
                         LevelsBelow(TreeTarget(r), x) <= DepthOf(r)}

\* the summary counts what is rendered
CountsRendered(r) ==
    /\ r.dirs = Cardinality({i \in 1..Len(r.entries) : r.entries[i].dir})
    /\ r.files = Cardinality({i \in 1..Len(r.entries) : ~r.entries[i].dir})

\* C27: tree renders, within each directory, directories before files and
\* each group in name order; with -L<N> nothing more than N levels below the
\* target, without it every level; and the counts of its summary are the
\* numbers of directory and file entries rendered
C27_TreeRenders ==
    TreeRan(resp) => GroupedByKind(resp) /\ DepthKept(resp) /\ CountsRendered(resp)

\* tree -a -L2 / on the plain tree renders the three directories of the root,
\* then its file, and nothing of /d/s
C27_Witness ==
    /\ TreeRan(resp)
    /\ resp.req.input = "tree -a -L2 /"
    /\ fs = Tree(<<>>, <<>>, <<>>, FALSE)
    /\ "/r/d/s" \in Listed(resp)
    /\ "/r/d/s/c" \notin Listed(resp)
    /\ resp.entries[Len(resp.entries)].real = "/r/a.t"
    /\ resp.dirs = 4
    /\ resp.files = 4

-----------------------------------------------------------------------------
(* C28: what ls lists                                                       *)

\* trees without a symlink out of the root and without rules in /..e, each
\* with and without a dangling symlink in /d
LsTrees ==
    {[t EXCEPT !.dangling = b] :
        t \in {x \in Trees : ~x.link /\ x.rules["/r/..e"] = <<>>}, b \in BOOLEAN}

LsCwds == {"/", "/d", "/d/s"}

LsInputs ==
    {"ls", "ls -a", "ls -l", "ls -la", "ls d", "ls -l d", "ls -lh /d", "ls b.t",
     "ls -l /a.t", "ls /d/s", "ls /.h", "ls zz", "dir"}

LsInit ==
    /\ fs \in LsTrees
    /\ sessions = [s \in {} |-> 0]
    /\ resp = NoResp
    /\ thr = <<>>
    /\ pin = NoCall
    /\ pout = NoCall

\* ls, served for a session whose directory is cwd
LsRequest ==
    /\ pout = NoCall
    /\ \E cwd \in LsCwds, input \in LsInputs :
         pout' = Tag(handleExec(cwd, input), "exec", [input |-> input], "", cwd, "")
    /\ UNCHANGED <<pin, fs, sessions, resp, thr>>

LsNext == LsRequest

SpecLs == LsInit /\ [][LsNext]_vars

\* an ls request whose target exists
LsRan(r) ==
    /\ r # NoCall
    /\ Cmd(r) \in {"ls", "dir"}
    /\ Stat(StartDir(r)) # "none"

\* the names ls is to list of the directory dir
LsExpected(r, dir) ==
    {n \in ChildNames(dir) :
        /\ ~MatchedByRule(pathJoin(dir, n))
        /\ ShowsHidden(r) \/ ~HasPrefix(n, ".")}

\* the names of the listing of r, in its order
LsShown(r) == [i \in 1..Len(r.entries) |-> r.entries[i].name]

\* C28: ls on a directory lists, in the short and in the long format alike,
\* exactly the entries of that directory that are not ignored and (without a
\* flag containing 'a') not hidden, in name order; ls on a file shows that
\* one entry
C28_LsListing ==
    LsRan(pout) =>
        IF Stat(StartDir(pout)) = "dir"
        THEN LsShown(pout) = SortStrings(LsExpected(pout, StartDir(pout)))
        ELSE LsShown(pout) = <<pathBase(StartDir(pout))>>

\* with the dangling symlink g in /d, ls -l d lists b.t and s and leaves g
\* out
C28_Witness ==
    /\ LsRan(pout)
    /\ pout.req.input = "ls -l d"
    /\ pout.cwd = "/"
    /\ fs = [Tree(<<>>, <<>>, <<>>, FALSE) EXCEPT !.dangling = TRUE]
    /\ LsShown(pout) = <<"b.t", "s">>
    /\ "g" \in LsExpected(pout, "/r/d")

\* the short format lists what the claim says, the dangling symlink included
LsShortExact ==
    (LsRan(pout) /\ \A i \in 1..Len(FlagsOf(pout)) : ~Contains(FlagsOf(pout)[i], "l")) =>
        IF Stat(StartDir(pout)) = "dir"
        THEN LsShown(pout) = SortStrings(LsExpected(pout, StartDir(pout)))
        ELSE LsShown(pout) = <<pathBase(StartDir(pout))>>

-----------------------------------------------------------------------------
(* C29: the virtual path of a collected item                                *)

\* item it carries a virtual path that translates to its real path
ItemResolves(it) ==
    /\ ~realFromVirtual(it.name).err
    /\ realFromVirtual(it.name).path = it.real

\* C29: every item that collectFilesForDownload returns, those of
\* collectFilesFromDirectory included, carries a virtual path that
\* realFromVirtual translates to the item's real path
C29_ItemsResolve ==
    pout.op = "collect" =>
        \A i \in 1..Len(pout.r.files) : ItemResolves(pout.r.files[i])

\* collecting "." in /d gives b.t with /r/d/b.t, its real path, as its
\* virtual path, which translates to /r/r/d/b.t
C29_Witness ==
    /\ pout.op = "collect"
    /\ pout.cwd = "/d"
    /\ pout.pattern = "."
    /\ fs = Tree(<<>>, <<>>, <<>>, FALSE)
    /\ Len(pout.r.files) > 0
    /\ pout.r.files[1].real = "/r/d/b.t"
    /\ pout.r.files[1].name = "/r/d/b.t"
    /\ realFromVirtual(pout.r.files[1].name).path = "/r/r/d/b.t"

\* the items of a glob pattern and of a pattern that names a file do carry
\* such a path
GlobItemsResolve ==
    (pout.op = "collect" /\ pout.pattern # "."
        /\ Stat(Place(pout.cwd, pout.pattern)) # "dir") =>
        \A i \in 1..Len(pout.r.files) : ItemResolves(pout.r.files[i])

-----------------------------------------------------------------------------
(* C30: when realFromVirtual rejects                                        *)

\* the root joined with the normalized form of the virtual path v
RootJoined(v) == IF cleanVirtual(v) = "/" THEN RootAbs ELSE RootAbs \o cleanVirtual(v)

\* C30: realFromVirtual rejects no virtual path whose normalized form names a
\* location at or beneath the root, a first segment that begins with two dots
\* included: it returns the root joined with the normalized path
C30_RejectsOnlyEscapes ==
    (pout.op = "realFromVirtual" /\ Inside(RootJoined(pin.v))) =>
        /\ ~pout.r.err
        /\ pout.r.path = RootJoined(pin.v)

\* the path /... names the entry "..." of the root and is rejected
C30_Witness ==
    /\ pout.op = "realFromVirtual"
    /\ pin.v = "/..."
    /\ cleanVirtual(pin.v) = "/..."
    /\ Inside(RootJoined(pin.v))
    /\ pout.r.err

\* a path whose first segment does not begin with two dots resolves to the
\* root joined with its normalized form
PlainFirstResolves ==
    (pout.op = "realFromVirtual" /\ ~HasPrefix(cleanVirtual(pin.v), "/..")) =>
        /\ ~pout.r.err
        /\ pout.r.path = RootJoined(pin.v)

====
